---- MODULE Spec2Model ----
(***************************************************************************)
(* A model of code-input.js: the template registry (usedTemplates,         *)
(* defaultTemplate, templateNotYetRegisteredQueue, registerTemplate) and   *)
(* the CodeInput custom element (getTemplate, setup, connectedCallback,    *)
(* disconnectedCallback, mutationObserverCallback,                         *)
(* attributeChangedCallback, addEventListener, removeEventListener, the    *)
(* value accessor and the animateFrame/update highlight loop), with the    *)
(* text conversions escapeHtml/unescapeHtml and the codeInput.plugins      *)
(* store.                                                                  *)
(*                                                                         *)
(* JavaScript runs every handler to completion, so each action below is    *)
(* one whole handler.  Strings that the code converts (escapeHtml,         *)
(* unescapeHtml) are sequences of one-character strings.  Template names   *)
(* range over ordinary strings (not property names that every object       *)
(* inherits, and not the text "undefined"); the names read from            *)
(* codeInput.plugins include one that every object inherits.  A script    *)
(* changes one attribute in a task (one mutation record is delivered) or   *)
(* two (one batch of two records is delivered).                            *)
(***************************************************************************)
EXTENDS Naturals, Sequences, FiniteSets, TLC

VARIABLES
    usedTemplates,                  \* codeInput.usedTemplates: name -> template
    defaultTemplate,                \* codeInput.defaultTemplate
    templateNotYetRegisteredQueue,  \* codeInput.templateNotYetRegisteredQueue: key -> array of elements
    elems,                          \* the code-input elements of the page
    observedAttributes,             \* codeInput.observedAttributes, as a set
    plugins,                        \* what scripts have stored in codeInput.plugins: name -> plugin
    requestLog,                     \* history: the enqueuing getTemplate calls, in order
    lastCall,                       \* history: what the last handler did
    lastResult                      \* history: the last call of a function and what it gave

vars == <<usedTemplates, defaultTemplate, templateNotYetRegisteredQueue,
          elems, observedAttributes, plugins, requestLog, lastCall, lastResult>>

----------------------------------------------------------------------------
(* Bounds *)

MaxQueue == 2           \* entries of templateNotYetRegisteredQueue, all buckets together
MaxLeaked == 1          \* observing MutationObservers an element no longer refers to (1 = one or more)
MaxCallbacks == 4       \* bound callbacks addEventListener makes for one element
MaxRequests == 2        \* highlight requests counted between two frames (2 = two or more)

Instances == {1, 2}     \* the code-input elements of the page
Focus == {1}            \* the element the single-element specification drives

Names == {"a", "b"}     \* template names used on the page
NonStringName == "<not a string>"   \* any templateName with typeof != "string"
Undefined == "undefined"            \* the value undefined; as an object key it is "undefined"

----------------------------------------------------------------------------
(* Strings *)

\* What a script assigns to value or a user types.
Values == {<<>>, <<"<", "&">>}

Amp == <<"&", "a", "m", "p", ";">>
Lt == <<"&", "l", "t", ";">>
Gt == <<"&", "g", "t", ";">>
Newline == <<"\n">>

\* text.replace(new RegExp(pat, "g"), rep) for a literal pattern: leftmost matches,
\* not overlapping, the replacement is not scanned again.
RECURSIVE ReplaceAll(_, _, _)
ReplaceAll(text, pat, rep) ==
    IF Len(text) < Len(pat) THEN text
    ELSE IF SubSeq(text, 1, Len(pat)) = pat
         THEN rep \o ReplaceAll(SubSeq(text, Len(pat) + 1, Len(text)), pat, rep)
         ELSE <<Head(text)>> \o ReplaceAll(Tail(text), pat, rep)

\* escapeHtml with its two replacements in the other order: the "&" of "&lt;" is
\* escaped again.
escapeHtmlLtFirst(text) == ReplaceAll(ReplaceAll(text, <<"<">>, Lt), <<"&">>, Amp)

escapeHtml(text) == ReplaceAll(ReplaceAll(text, <<"&">>, Amp), <<"<">>, Lt)

\* unescapeHtml without its replacement of "&lt;".
unescapeHtmlWithoutLt(text) == ReplaceAll(ReplaceAll(text, Amp, <<"&">>), Gt, <<">">>)

unescapeHtml(text) ==
    ReplaceAll(ReplaceAll(ReplaceAll(text, Amp, <<"&">>), Lt, <<"<">>), Gt, <<">">>)

\* Initial inner content of an element (its innerHTML, as the page's markup gives it)
\* and the texts given to its value attribute.
InnerContents == {<<>>, Lt}
ValueAttrs == {<<"&">>}

\* An optional value: <<>> is null (an absent attribute, no request), <<v>> is v.
NoValue == <<>>
Some(v) == <<v>>

\* In place of an optional value: the code asked for it throws.
PassRaises == <<<<"throw">>, <<"throw">>>>

\* String.prototype.toLowerCase over the letters the attribute values are written in.
LowerCase(c) == CASE c = "J" -> "j" [] c = "S" -> "s" [] c = "P" -> "p" [] OTHER -> c
toLowerCase(text) == [k \in DOMAIN text |-> LowerCase(text[k])]

\* The class name "language-" + lang, and Prism's class for no language.
LanguagePrefix == <<"l", "a", "n", "g", "u", "a", "g", "e", "-">>
LanguageClass(lang) == LanguagePrefix \o lang
LanguageNone == LanguageClass(<<"n", "o", "n", "e">>)
IsLanguageClass(class) ==
    Len(class) >= Len(LanguagePrefix) /\ SubSeq(class, 1, Len(LanguagePrefix)) = LanguagePrefix

\* String(null), which a DOMString property stores when it is assigned null.
NullText == <<"n", "u", "l", "l">>

\* a || b on optional texts: a unless it is null or "".
OrElse(a, b) == IF a = NoValue \/ a[1] = <<>> THEN b ELSE a

----------------------------------------------------------------------------
(* Templates and plugins *)

HookNames == {"beforeHighlight", "afterHighlight", "beforeElementsAdded",
              "afterElementsAdded", "attributeChanged"}

\* A plugin object: observedAttributes is what it handed to the Plugin constructor.
PluginAll ==                                              \* instanceof codeInput.Plugin
    [isPlugin |-> TRUE, hooks |-> HookNames, observedAttributes |-> {}]
PluginLimit ==                                            \* a plugin watching data-limit
    [isPlugin |-> TRUE, hooks |-> HookNames, observedAttributes |-> {"data-limit"}]
PluginBefore ==                                           \* a plugin with two of the hooks
    [isPlugin |-> TRUE, hooks |-> {"beforeHighlight", "beforeElementsAdded"},
     observedAttributes |-> {}]
PluginAfter ==                                            \* a plugin with the other three
    [isPlugin |-> TRUE, hooks |-> {"afterHighlight", "afterElementsAdded", "attributeChanged"},
     observedAttributes |-> {}]
NotAPlugin ==                                             \* a plain object
    [isPlugin |-> FALSE, hooks |-> {}, observedAttributes |-> {}]

\* typeof x == "function": a function of the page, or Prism's highlightElement.
PrismHighlight == "Prism.highlightElement"
IsFunction(x) == x \in {"function", PrismHighlight}

\* A template object.  A flag is "true" or "false" when it is a boolean and another
\* text when it is not; highlight is "function" or PrismHighlight when it is
\* callable; plugins is an array or not.
Tpl(h, pre, code, incl, isArr, items) ==
    [highlight |-> h, preElementStyled |-> pre, isCode |-> code,
     includeCodeInputInHighlightFunc |-> incl,
     plugins |-> [isArray |-> isArr, items |-> items]]

UndefinedTpl == Tpl(Undefined, Undefined, Undefined, Undefined, FALSE, <<>>)

TplPlain == Tpl("function", "true", "true", "false", TRUE, <<>>)
TplPlugin == Tpl("function", "false", "false", "true", TRUE, <<PluginAll>>)
TplLimit == Tpl("function", "true", "true", "false", TRUE, <<PluginLimit>>)
TplHooks == Tpl("function", "true", "true", "false", TRUE,
                <<PluginBefore, PluginAll, PluginAfter>>)
TplPrism == Tpl(PrismHighlight, "true", "true", "false", TRUE, <<>>)   \* new codeInput.templates.Prism(Prism)
ValidTemplates == {TplPlain, TplPlugin}

MalformedTemplates ==
    { Tpl(Undefined, "true", "true", "false", TRUE, <<>>),
      Tpl("function", Undefined, "true", "false", TRUE, <<>>),
      Tpl("function", "true", "1", "false", TRUE, <<>>),
      Tpl("function", "true", "true", Undefined, TRUE, <<>>),
      Tpl("function", "true", "true", "false", FALSE, <<>>),
      Tpl("function", "true", "true", "false", TRUE, <<PluginAll, NotAPlugin>>) }

IsBoolean(x) == x \in {"true", "false"}
Truthy(x) == x \notin {"false", Undefined}

----------------------------------------------------------------------------
(* One code-input element *)

RegisteredClass == "code-input_registered"
StyledClass == "code-input_pre-element-styled"
LoadedClass == "code-input_loaded"

\* The element as the constructor leaves it (class field initialisers), with the
\* inner content the page's markup gave it.
NewElement(content) ==
    [isConnected |-> FALSE,
     attrs |-> <<>>,                \* attribute name -> text; absent names are not in the domain
     innerHTML |-> content,         \* text content of the host
     fallback |-> NoValue,          \* optional: the textarea[code-input-fallback] child, its value and attributes
     children |-> <<>>,             \* element children of the host, the nodes' identities
     template |-> UndefinedTpl,
     textareaElement |-> 0,         \* node identities; 0 is null
     preElement |-> 0,
     codeElement |-> 0,
     dialogContainerElement |-> 0,
     nodesCreated |-> 0,            \* document.createElement calls made for this element
     textareaValue |-> <<>>,        \* textareaElement.value
     textareaAttrs |-> <<>>,        \* the attributes of the textarea: name -> text
     codeClasses |-> {},            \* codeElement.classList
     preClasses |-> {},             \* preElement.classList
     codeInnerHTML |-> <<>>,        \* what update() last wrote into codeElement
     initialValue |-> <<>>,
     needsHighlight |-> FALSE,
     classList |-> {},
     pendingFrames |-> 0,           \* requestAnimationFrame callbacks not yet run
     observing |-> FALSE,           \* this.mutationObserver exists and is observing
     leakedObservers |-> 0,         \* earlier MutationObservers of the element, overwritten
                                    \* in this.mutationObserver while observing
     loadEvents |-> 0,              \* code-input_load events dispatched
     boundEventCallbacks |-> <<>>,  \* String(listener) -> the bound callback stored last
     callbacksCreated |-> 0,        \* bound callbacks made by addEventListener so far
     hostListeners |-> {},          \* [type, callback] attached to the host element
     loadListeners |-> <<>>,        \* the closures attached to the host for code-input_load
     textareaListeners |-> {},      \* [type, callback] attached to the textarea
     requests |-> 0,                \* history: scheduleHighlight calls since the last frame ended
     steps |-> <<>>]                \* history: what the handler now running has done, in order

hasAttribute(e, name) == name \in DOMAIN e.attrs
getAttribute(e, name) == IF hasAttribute(e, name) THEN Some(e.attrs[name]) ELSE NoValue

Min(a, b) == IF a < b THEN a ELSE b

\* pluginEvt reads this.template.plugins: a TypeError when this.template is undefined.
\* The hooks themselves act on the element only where update() says so.
pluginEvtRaises(e) == e.template = UndefinedTpl

scheduleHighlight(e) ==
    [e EXCEPT !.needsHighlight = TRUE, !.requests = Min(@ + 1, MaxRequests)]

\* One step of a handler: arg is the index of the plugin for a hook, the number of
\* arguments for the highlight function, and 0 otherwise.
Step(step, arg) == [step |-> step, arg |-> arg]
did(e, step, arg) == [e EXCEPT !.steps = Append(@, Step(step, arg))]

\* pluginEvt(eventName, ...) on a defined template: plugin[eventName] is called for
\* each plugin of the array that has it, in the order of the array.
RECURSIVE pluginEvtFrom(_, _, _)
pluginEvtFrom(e, eventName, k) ==
    IF k > Len(e.template.plugins.items) THEN e
    ELSE pluginEvtFrom(IF eventName \in e.template.plugins.items[k].hooks
                       THEN did(e, eventName, k) ELSE e,
                       eventName, k + 1)
pluginEvt(e, eventName) == pluginEvtFrom(e, eventName, 1)

\* set value(val): null and undefined become ""; the caller checks textareaElement.
setValue(e, val) ==
    scheduleHighlight([e EXCEPT !.textareaValue = IF val = NoValue THEN <<>> ELSE val[1]])

\* Whether code run inside a highlight pass is handed the element: a plugin's
\* beforeHighlight/afterHighlight hook, or the highlight function when
\* includeCodeInputInHighlightFunc is set.
PassReachesElement(tpl) ==
    \/ \E k \in 1..Len(tpl.plugins.items) :
          tpl.plugins.items[k].hooks \cap {"beforeHighlight", "afterHighlight"} # {}
    \/ Truthy(tpl.includeCodeInputInHighlightFunc)

\* The language classes of a class list.
LanguageClasses(classes) == {c \in classes : IsLanguageClass(c)}

\* Prism.highlightElement(code), the function the Prism template hands over as
\* highlight (the library's own file is not part of this repository): it takes the
\* language from the class of code, else of pre, else "none", and leaves that one
\* language class on code and on its parent pre.  The callbacks below leave at most
\* one language class on a node.
prismHighlight(e) ==
    LET found == IF LanguageClasses(e.codeClasses) # {} THEN LanguageClasses(e.codeClasses)
                 ELSE IF LanguageClasses(e.preClasses) # {} THEN LanguageClasses(e.preClasses)
                 ELSE {LanguageNone}
        class == CHOOSE c \in found : TRUE
    IN [e EXCEPT !.codeClasses = (@ \ LanguageClasses(@)) \cup {class},
                 !.preClasses = (@ \ LanguageClasses(@)) \cup {class}]

\* this.template.highlight(resultElement[, this]).
highlight(e) == IF e.template.highlight = PrismHighlight THEN prismHighlight(e) ELSE e

\* update() that calls the afterHighlight hooks before the highlight function.
updateAfterHooksFirst(e, req) ==
    LET written == did([e EXCEPT !.codeInnerHTML = escapeHtml(e.textareaValue \o Newline)],
                       "innerHTML", 0)
        before == pluginEvt(pluginEvt(written, "beforeHighlight"), "afterHighlight")
        called == did(before, "highlight",
                      IF Truthy(e.template.includeCodeInputInHighlightFunc) THEN 2 ELSE 1)
        highlighted == IF req # NoValue /\ PassReachesElement(written.template)
                       THEN setValue(highlight(called), req)
                       ELSE highlight(called)
    IN IF pluginEvtRaises(written)
       THEN [e |-> written, raised |-> TRUE]
       ELSE IF req = PassRaises
       THEN [e |-> called, raised |-> TRUE]
       ELSE [e |-> did(highlighted, "syncSize", 0), raised |-> FALSE]

\* update(): req is what the hooks and the highlight function of this pass do to the
\* element: NoValue (nothing), Some(v) (one of them assigns element.value = v) or
\* PassRaises (the highlight function throws).
update(e, req) ==
    LET afterCall(called) ==
            IF req = PassRaises THEN [e |-> called, raised |-> TRUE]
            ELSE [e |-> pluginEvt(did(IF req # NoValue /\ PassReachesElement(e.template)
                                      THEN setValue(highlight(called), req)
                                      ELSE highlight(called),
                                      "syncSize", 0),
                                  "afterHighlight"),
                  raised |-> FALSE]
        afterWrite(written) ==
            IF pluginEvtRaises(e) THEN [e |-> written, raised |-> TRUE]
            ELSE afterCall(did(pluginEvt(written, "beforeHighlight"), "highlight",
                               IF Truthy(e.template.includeCodeInputInHighlightFunc)
                               THEN 2 ELSE 1))
    IN afterWrite(did([e EXCEPT !.codeInnerHTML = escapeHtml(e.textareaValue \o Newline)],
                      "innerHTML", 0))

\* animateFrame() without its test of the flag: every frame runs a pass.
animateFrameEveryFrame(e, req) ==
    LET u == update(e, req)
    IN IF u.raised
       THEN [e |-> u.e, raised |-> TRUE, updates |-> 1]
       ELSE [e |-> did([u.e EXCEPT !.needsHighlight = FALSE,
                                   !.pendingFrames = @ + 1,
                                   !.requests = 0],
                       "requestAnimationFrame", 0),
             raised |-> FALSE, updates |-> 1]

\* animateFrame(): the body of one frame; the caller has taken the callback off
\* pendingFrames.  An exception in update() leaves the flag set and schedules nothing.
animateFrame(e, req) ==
    IF e.needsHighlight
    THEN LET afterUpdate(u) ==
                 IF u.raised
                 THEN [e |-> u.e, raised |-> TRUE, updates |-> 1]
                 ELSE [e |-> did([u.e EXCEPT !.needsHighlight = FALSE,
                                             !.pendingFrames = @ + 1,
                                             !.requests = 0],
                                 "requestAnimationFrame", 0),
                       raised |-> FALSE, updates |-> 1]
         IN afterUpdate(update(e, req))
    ELSE [e |-> did([e EXCEPT !.pendingFrames = @ + 1, !.requests = 0],
                    "requestAnimationFrame", 0),
          raised |-> FALSE, updates |-> 0]

\* The loop of setup() over fallbackTextarea.getAttributeNames(): the host gets the
\* attributes of the fallback textarea that it does not have.
copyFallbackAttributes(e) ==
    IF e.fallback = NoValue THEN e
    ELSE LET from == e.fallback[1].attrs
         IN [e EXCEPT !.attrs = [n \in DOMAIN e.attrs \cup DOMAIN from |->
                                    IF n \in DOMAIN e.attrs THEN e.attrs[n] ELSE from[n]]]

\* setup() that reads the inner content also when there is a fallback textarea.
initialTextInnerFirst(e) ==
    LET inner == unescapeHtml(e.innerHTML)
        first == IF inner # <<>> \/ e.fallback = NoValue THEN inner ELSE e.fallback[1].value
        attr == getAttribute(copyFallbackAttributes(e), "value")
    IN IF first # <<>> THEN first
       ELSE IF attr # NoValue /\ attr[1] # <<>> THEN attr[1]
       ELSE <<>>

\* The value setup() captures: fallbackTextarea.value or unescapeHtml(innerHTML), and
\* then value || getAttribute("value") || "".
initialText(e) ==
    LET first == IF e.fallback # NoValue THEN e.fallback[1].value
                 ELSE unescapeHtml(e.innerHTML)
        attr == getAttribute(copyFallbackAttributes(e), "value")
    IN IF first # <<>> THEN first
       ELSE IF attr # NoValue /\ attr[1] # <<>> THEN attr[1]
       ELSE <<>>

\* codeInput.textareaSyncEvents.
textareaSyncEvents == {"change", "selectionchange", "invalid", "input"}

\* The listeners scripts pass: two functions with the same source text, a third
\* function, and a listener object.
Listeners == {"f", "g1", "g2", "o1"}

\* String(listener), the property name boundEventCallbacks[listener] uses.
ListenerKey(listener) ==
    IF listener \in {"g1", "g2"} THEN "function () { g() }"
    ELSE IF listener = "o1" THEN "[object Object]"
    ELSE listener

\* boundEventCallbacks[listener] when nothing is stored: undefined.
NoCallback == [id |-> 0, listener |-> ""]

\* The source texts of the closures addEventListener and removeEventListener defer to
\* code-input_load.
DeferredAdd == "() => { this.textareaElement.addEventListener(type, boundCallback); }"
DeferredRemove == "() => { this.textareaElement.removeEventListener(type, boundCallback); }"

\* The first lines of addEventListener: a new bound callback stored under
\* String(listener).
bindCallback(e, listener) ==
    LET boundCallback == [id |-> e.callbacksCreated + 1, listener |-> listener]
        key == ListenerKey(listener)
    IN [e EXCEPT !.callbacksCreated = @ + 1,
                 !.boundEventCallbacks =
                     [k \in DOMAIN @ \cup {key} |-> IF k = key THEN boundCallback ELSE @[k]]]

\* this.addEventListener("code-input_load", closure): the closure is bound and stored
\* like any listener, and attached to the host.
deferToLoad(e, closure) ==
    [bindCallback(e, closure.text) EXCEPT !.loadListeners = Append(@, closure)]

\* addEventListener(type, listener) without options.
addEventListener(e, type, listener) ==
    LET e1 == bindCallback(e, listener)
        boundCallback == e1.boundEventCallbacks[ListenerKey(listener)]
        entry == [type |-> type, callback |-> boundCallback]
    IN IF type \in textareaSyncEvents
       THEN IF e1.textareaElement = 0
            THEN deferToLoad(e1, [text |-> DeferredAdd, type |-> type,
                                  callback |-> boundCallback])
            ELSE [e1 EXCEPT !.textareaListeners = @ \cup {entry}]
       ELSE [e1 EXCEPT !.hostListeners = @ \cup {entry}]

\* removeEventListener(type, listener) without options.
removeEventListener(e, type, listener) ==
    LET key == ListenerKey(listener)
        boundCallback == IF key \in DOMAIN e.boundEventCallbacks
                         THEN e.boundEventCallbacks[key] ELSE NoCallback
        entry == [type |-> type, callback |-> boundCallback]
    IN IF type \in textareaSyncEvents
       THEN IF e.textareaElement = 0
            THEN deferToLoad(e, [text |-> DeferredRemove, type |-> type,
                                 callback |-> boundCallback])
            ELSE [e EXCEPT !.textareaListeners = @ \ {entry}]
       ELSE [e EXCEPT !.hostListeners = @ \ {entry}]

\* dispatchEvent(new CustomEvent("code-input_load")): the closures run in the order
\* in which they were attached, from the k-th on.
RECURSIVE runLoadListeners(_, _)
runLoadListeners(e, k) ==
    IF k > Len(e.loadListeners) THEN e
    ELSE LET closure == e.loadListeners[k]
             entry == [type |-> closure.type, callback |-> closure.callback]
         IN runLoadListeners(
                [e EXCEPT !.textareaListeners =
                     IF closure.text = DeferredAdd THEN @ \cup {entry} ELSE @ \ {entry}],
                k + 1)

\* codeInput.textareaSyncAttributes.
textareaSyncAttributes ==
    {"value", "min", "max", "type", "pattern", "autocomplete", "autocorrect", "autofocus",
     "cols", "dirname", "disabled", "form", "maxlength", "minlength", "name",
     "placeholder", "readonly", "required", "rows", "spellcheck", "wrap"}

\* name.substring(0, 5) == "aria-", over the attribute names used on the page.
AriaNames == {"aria-label"}
IsAria(name) == name \in AriaNames

IsSynced(name) == name \in textareaSyncAttributes \/ IsAria(name)

\* textarea.placeholder, which reflects the attribute: "" when it is absent.
placeholderOf(e) ==
    IF "placeholder" \in DOMAIN e.textareaAttrs THEN e.textareaAttrs["placeholder"] ELSE <<>>

\* textarea.setAttribute(name, text) and textarea.removeAttribute(name).
setTextareaAttribute(e, name, text) ==
    [e EXCEPT !.textareaAttrs =
        [n \in DOMAIN e.textareaAttrs \cup {name} |->
            IF n = name THEN text ELSE e.textareaAttrs[n]]]
removeTextareaAttribute(e, name) ==
    [e EXCEPT !.textareaAttrs = [n \in DOMAIN e.textareaAttrs \ {name} |-> e.textareaAttrs[n]]]

\* setup() from its second line to the dispatch of code-input_load: the surfaces.
buildSurfaces(el) ==
    LET e == copyFallbackAttributes(el)
        n == e.nodesCreated
        value == initialText(e)
        lang == OrElse(getAttribute(e, "language"), getAttribute(e, "lang"))
        placeholder == OrElse(OrElse(getAttribute(e, "placeholder"), lang), Some(<<>>))[1]
        synced == {a \in DOMAIN e.attrs : IsSynced(a)}
        built == [pluginEvt(e, "beforeElementsAdded") EXCEPT
                    !.textareaAttrs =
                        [a \in {"placeholder", "spellcheck"} \cup synced |->
                            IF a \in synced THEN e.attrs[a]
                            ELSE IF a = "placeholder" THEN placeholder
                            ELSE <<"false">>],
                    !.codeClasses =
                        IF Truthy(e.template.isCode) /\ lang # NoValue /\ lang[1] # <<>>
                        THEN {LanguageClass(toLowerCase(lang[1]))} ELSE {},
                    !.preClasses = {},
                    !.classList = @ \cup {RegisteredClass}
                                    \cup (IF Truthy(e.template.preElementStyled)
                                          THEN {StyledClass} ELSE {}),
                    !.initialValue = value,
                    !.innerHTML = <<>>,
                    !.fallback = NoValue,
                    !.textareaElement = n + 1,
                    !.codeElement = n + 2,
                    !.preElement = n + 3,
                    !.dialogContainerElement = n + 4,
                    !.nodesCreated = n + 5,
                    !.children = <<n + 1, n + 3, n + 4>>]
        added == pluginEvt(did(built, "surfaces", 0), "afterElementsAdded")
    IN runLoadListeners(did([added EXCEPT !.loadEvents = @ + 1], "code-input_load", 0), 1)

\* setup() without its first line: it builds the surfaces again when they exist.
setupWithoutGuard(e, req) ==
    animateFrame(did(setValue(buildSurfaces(e), Some(initialText(e))), "value", 0), req).e

\* setup() that leaves the first highlight pass to the next frame: it requests the
\* frame instead of calling animateFrame().
setupWithoutFirstPass(e, req) ==
    IF e.textareaElement # 0 THEN e
    ELSE [did(setValue(buildSurfaces(e), Some(initialText(e))), "value", 0) EXCEPT !.pendingFrames = @ + 1]

\* setup() that calls animateFrame() before it sets the value.
setupLoopFirst(e, req) ==
    IF e.textareaElement # 0 THEN e
    ELSE did(setValue(animateFrame(buildSurfaces(e), req).e, Some(initialText(e))), "value", 0)

\* setup() whose first line starts the loop again on an element that is built.
setupRestartingLoop(e, req) ==
    IF e.textareaElement # 0 THEN animateFrame(e, req).e
    ELSE animateFrame(did(setValue(buildSurfaces(e), Some(initialText(e))), "value", 0), req).e

\* setup(): called by connectedCallback with this.template defined.
setup(e, req) ==
    IF e.textareaElement # 0 THEN e
    ELSE animateFrame(did(setValue(buildSurfaces(e), Some(initialText(e))), "value", 0), req).e

----------------------------------------------------------------------------
(* The registry and the element's callbacks, on the whole page *)

\* The page during a handler: the variables, and what the handler has done so far.
World ==
    [usedTemplates |-> usedTemplates,
     defaultTemplate |-> defaultTemplate,
     queue |-> templateNotYetRegisteredQueue,
     elems |-> elems,
     requestLog |-> requestLog,
     setups |-> <<>>,       \* elements whose setup() built the surfaces, in order
     resetups |-> <<>>,     \* elements whose setup() found them built, in order
     calls |-> <<>>,        \* elements whose connectedCallback() ran, in order
     hooks |-> <<>>]        \* the attributeChanged hooks called, in order

RECURSIVE SumLen(_, _)
SumLen(q, keys) ==
    IF keys = {} THEN 0
    ELSE LET k == CHOOSE x \in keys : TRUE
         IN Len(q[k]) + SumLen(q, keys \ {k})

QueueSize(q) == SumLen(q, DOMAIN q)

\* getTemplate() that falls back to the default template when the named one is not
\* registered.
getTemplateWithFallback(w, i) ==
    LET attr == getAttribute(w.elems[i], "template")
        templateName == IF attr = NoValue THEN w.defaultTemplate ELSE attr[1]
    IN IF templateName \in DOMAIN w.usedTemplates
       THEN [w |-> w, template |-> w.usedTemplates[templateName]]
       ELSE IF w.defaultTemplate \in DOMAIN w.usedTemplates
       THEN [w |-> w, template |-> w.usedTemplates[w.defaultTemplate]]
       ELSE LET bucket == IF templateName \in DOMAIN w.queue
                          THEN w.queue[templateName] ELSE <<>>
            IN [w |-> [w EXCEPT
                         !.queue = [k \in DOMAIN w.queue \cup {templateName} |->
                                      IF k = templateName THEN Append(bucket, i)
                                      ELSE w.queue[k]],
                         !.requestLog = Append(@, [elem |-> i, name |-> templateName])],
                template |-> UndefinedTpl]

\* getTemplate() that puts the element at the head of its bucket.
getTemplatePrepending(w, i) ==
    LET attr == getAttribute(w.elems[i], "template")
        templateName == IF attr = NoValue THEN w.defaultTemplate ELSE attr[1]
    IN IF templateName \in DOMAIN w.usedTemplates
       THEN [w |-> w, template |-> w.usedTemplates[templateName]]
       ELSE LET bucket == IF templateName \in DOMAIN w.queue
                          THEN w.queue[templateName] ELSE <<>>
            IN [w |-> [w EXCEPT
                         !.queue = [k \in DOMAIN w.queue \cup {templateName} |->
                                      IF k = templateName THEN <<i>> \o bucket
                                      ELSE w.queue[k]],
                         !.requestLog = Append(@, [elem |-> i, name |-> templateName])],
                template |-> UndefinedTpl]

\* getTemplate(): the template of element i, or undefined after queueing i.
getTemplate(w, i) ==
    LET attr == getAttribute(w.elems[i], "template")
        templateName == IF attr = NoValue THEN w.defaultTemplate ELSE attr[1]
    IN IF templateName \in DOMAIN w.usedTemplates
       THEN [w |-> w, template |-> w.usedTemplates[templateName]]
       ELSE LET bucket == IF templateName \in DOMAIN w.queue
                          THEN w.queue[templateName] ELSE <<>>
            IN [w |-> [w EXCEPT
                         !.queue = [k \in DOMAIN w.queue \cup {templateName} |->
                                      IF k = templateName THEN Append(bucket, i)
                                      ELSE w.queue[k]],
                         !.requestLog = Append(@, [elem |-> i, name |-> templateName])],
                template |-> UndefinedTpl]

\* connectedCallback() of element i (the browser has set isConnected before it calls
\* it; registerTemplate calls it whatever isConnected is).
connectedCallback(w, i, req) ==
    LET g == getTemplate(w, i)
        e0 == [g.w.elems[i] EXCEPT !.template = g.template]
        wasBuilt == e0.textareaElement # 0
        observed(e1) ==
            [e1 EXCEPT !.leakedObservers = IF e1.observing THEN Min(@ + 1, MaxLeaked) ELSE @,
                       !.observing = TRUE]
    IN [g.w EXCEPT
          !.elems[i] = observed(IF g.template # UndefinedTpl
                                THEN [setup([e0 EXCEPT !.classList = @ \cup {RegisteredClass}],
                                            req)
                                         EXCEPT !.classList = @ \cup {LoadedClass}]
                                ELSE e0),
          !.calls = Append(@, i),
          !.setups = IF g.template # UndefinedTpl /\ ~wasBuilt THEN Append(@, i) ELSE @,
          !.resetups = IF g.template # UndefinedTpl /\ wasBuilt THEN Append(@, i) ELSE @]

\* disconnectedCallback() that also forgets the textarea the element has built.
disconnectedCallbackForgetting(e) == [e EXCEPT !.observing = FALSE, !.textareaElement = 0]

\* disconnectedCallback(): this.mutationObserver.disconnect().
disconnectedCallback(e) == [e EXCEPT !.observing = FALSE]

\* The MutationObservers of the element that are observing.
activeObservers(e) == e.leakedObservers + (IF e.observing THEN 1 ELSE 0)

\* The loop of registerTemplate walking the bucket from its tail to its head.
RECURSIVE replayBucketBackwards(_, _, _, _, _)
replayBucketBackwards(w, bucket, k, template, req) ==
    IF k > Len(bucket) THEN w
    ELSE LET i == bucket[Len(bucket) + 1 - k]
             assigned == [w EXCEPT !.elems[i].template = template]
         IN replayBucketBackwards(connectedCallback(assigned, i, req), bucket, k + 1,
                                  template, req)

\* The loop of registerTemplate over one bucket, from index k on.
RECURSIVE replayBucket(_, _, _, _, _)
replayBucket(w, bucket, k, template, req) ==
    IF k > Len(bucket) THEN w
    ELSE LET i == bucket[k]
             assigned == [w EXCEPT !.elems[i].template = template]
         IN replayBucket(connectedCallback(assigned, i, req), bucket, k + 1, template, req)

\* The checks of registerTemplate without the one of template.isCode.
IsValidRegistrationWithoutIsCode(templateName, template) ==
    /\ templateName # NonStringName
    /\ IsFunction(template.highlight)
    /\ IsBoolean(template.includeCodeInputInHighlightFunc)
    /\ IsBoolean(template.preElementStyled)
    /\ template.plugins.isArray
    /\ \A k \in 1..Len(template.plugins.items) : template.plugins.items[k].isPlugin

\* The checks of registerTemplate that throw a TypeError.
IsValidRegistration(templateName, template) ==
    /\ templateName # NonStringName
    /\ IsFunction(template.highlight)
    /\ IsBoolean(template.includeCodeInputInHighlightFunc)
    /\ IsBoolean(template.preElementStyled)
    /\ IsBoolean(template.isCode)
    /\ template.plugins.isArray
    /\ \A k \in 1..Len(template.plugins.items) : template.plugins.items[k].isPlugin

\* registerTemplate that makes every name it registers the default.
registerTemplateAlwaysDefault(w, templateName, template, req) ==
    LET w1 == [w EXCEPT !.usedTemplates =
                  [n \in DOMAIN w.usedTemplates \cup {templateName} |->
                      IF n = templateName THEN template ELSE w.usedTemplates[n]]]
        w2 == IF templateName \in DOMAIN w1.queue
              THEN replayBucket(w1, w1.queue[templateName], 1, template, req)
              ELSE w1
        w3 == [w2 EXCEPT !.defaultTemplate = templateName]
    IN IF Undefined \in DOMAIN w3.queue
       THEN replayBucket(w3, w3.queue[Undefined], 1, template, req)
       ELSE w3

\* registerTemplate(templateName, template) after its checks.
registerTemplate(w, templateName, template, req) ==
    LET w1 == [w EXCEPT !.usedTemplates =
                  [n \in DOMAIN w.usedTemplates \cup {templateName} |->
                      IF n = templateName THEN template ELSE w.usedTemplates[n]]]
        withDefault(w2) ==
            IF w2.defaultTemplate = Undefined
            THEN LET w3 == [w2 EXCEPT !.defaultTemplate = templateName]
                 IN IF Undefined \in DOMAIN w3.queue
                    THEN replayBucket(w3, w3.queue[Undefined], 1, template, req)
                    ELSE w3
            ELSE w2
    IN withDefault(IF templateName \in DOMAIN w1.queue
                   THEN replayBucket(w1, w1.queue[templateName], 1, template, req)
                   ELSE w1)

\* codeInput.observedAttributes, as the library declares it.
builtinObservedAttributes == {"value", "placeholder", "language", "lang", "template"}

\* usedTemplates[key] for a key that may be missing.
LookupTemplate(ut, key) == IF key \in DOMAIN ut THEN ut[key] ELSE UndefinedTpl

\* pluginEvt("attributeChanged", [name, oldValue, newValue]): the calls it makes, one
\* for each plugin of the template that has the hook, in the order of the array.
attributeChangedHooks(e, name, oldValue, newValue) ==
    LET items == e.template.plugins.items
        calls == [k \in 1..Len(items) |->
                     [plugin |-> k, name |-> name, oldValue |-> oldValue, newValue |-> newValue]]
    IN SelectSeq(calls, LAMBDA c : "attributeChanged" \in items[c.plugin].hooks)

\* languageChanged without its test for a class that is already there.
languageChangedWithoutCheck(e, oldValue, newValue) ==
    LET new == IF newValue # NoValue THEN Some(toLowerCase(newValue[1])) ELSE NoValue
        old == IF oldValue # NoValue THEN Some(toLowerCase(oldValue[1])) ELSE NoValue
        removed == IF old = NoValue THEN {LanguageNone}
                   ELSE {LanguageClass(old[1]), LanguageNone}
        classes == [e EXCEPT
                      !.codeClasses = (@ \ removed)
                                      \cup (IF new # NoValue /\ new[1] # <<>>
                                            THEN {LanguageClass(new[1])} ELSE {}),
                      !.preClasses = @ \ removed]
    IN scheduleHighlight(
           IF old # NoValue /\ placeholderOf(e) = old[1]
           THEN setTextareaAttribute(classes, "placeholder",
                                     IF new = NoValue THEN NullText ELSE new[1])
           ELSE classes)

\* languageChanged that does not take the old class off the nodes.
languageChangedKeepingOld(e, oldValue, newValue) ==
    LET new == IF newValue # NoValue THEN Some(toLowerCase(newValue[1])) ELSE NoValue
        old == IF oldValue # NoValue THEN Some(toLowerCase(oldValue[1])) ELSE NoValue
        classes == [e EXCEPT
                      !.codeClasses = (@ \ {LanguageNone})
                                      \cup (IF new # NoValue /\ new[1] # <<>>
                                            THEN {LanguageClass(new[1])} ELSE {}),
                      !.preClasses = @ \ {LanguageNone}]
    IN IF new # NoValue /\ LanguageClass(new[1]) \in e.codeClasses
       THEN e
       ELSE scheduleHighlight(
                IF old # NoValue /\ placeholderOf(e) = old[1]
                THEN setTextareaAttribute(classes, "placeholder",
                                          IF new = NoValue THEN NullText ELSE new[1])
                ELSE classes)

\* case "lang" / "language" of attributeChangedCallback on a built element.
languageChanged(e, oldValue, newValue) ==
    LET new == IF newValue # NoValue THEN Some(toLowerCase(newValue[1])) ELSE NoValue
        old == IF oldValue # NoValue THEN Some(toLowerCase(oldValue[1])) ELSE NoValue
        removed == IF old = NoValue THEN {LanguageNone}
                   ELSE {LanguageClass(old[1]), LanguageNone}
        classes == [e EXCEPT
                      !.codeClasses = (@ \ removed)
                                      \cup (IF new # NoValue /\ new[1] # <<>>
                                            THEN {LanguageClass(new[1])} ELSE {}),
                      !.preClasses = @ \ removed]
    IN IF new # NoValue /\ LanguageClass(new[1]) \in e.codeClasses
       THEN e                                                       \* already updated
       ELSE scheduleHighlight(
                IF old # NoValue /\ placeholderOf(e) = old[1]
                THEN setTextareaAttribute(classes, "placeholder",
                                          IF new = NoValue THEN NullText ELSE new[1])
                ELSE classes)

\* The switch of attributeChangedCallback(name, oldValue, newValue); oldValue and
\* newValue are optional values, hooks the hooks called before it.  Every branch but "template" reads a surface, a TypeError on an
\* element that is not built; the last branch reads
\* codeInput.textareaSyncAttributes.regexp, which nothing defines.
attributeChangedSwitch(el, hooks, ut, dt, name, oldValue, newValue) ==
    LET e == did(el, "switch", 0)
    IN
    IF name = "value"
         THEN IF e.textareaElement = 0 THEN [e |-> e, raised |-> TRUE, hooks |-> hooks]
              ELSE [e |-> setValue(e, newValue), raised |-> FALSE, hooks |-> hooks]
    ELSE IF name = "template"
         THEN LET key == IF newValue = NoValue \/ newValue[1] = "" THEN dt ELSE newValue[1]
                  t == LookupTemplate(ut, key)
                  e1 == [e EXCEPT !.template = t]
              IN IF t = UndefinedTpl THEN [e |-> e1, raised |-> TRUE, hooks |-> hooks]
                 ELSE [e |-> scheduleHighlight(
                                [e1 EXCEPT !.classList =
                                    IF Truthy(t.preElementStyled) THEN @ \cup {StyledClass}
                                    ELSE @ \ {StyledClass}]),
                       raised |-> FALSE, hooks |-> hooks]
    ELSE IF name \in {"lang", "language"}
         THEN IF e.textareaElement = 0 THEN [e |-> e, raised |-> TRUE, hooks |-> hooks]
              ELSE [e |-> languageChanged(e, oldValue, newValue),
                    raised |-> FALSE, hooks |-> hooks]
    ELSE IF IsSynced(name)
         THEN IF e.textareaElement = 0 THEN [e |-> e, raised |-> TRUE, hooks |-> hooks]
              ELSE [e |-> IF newValue = NoValue THEN removeTextareaAttribute(e, name)
                          ELSE setTextareaAttribute(e, name, newValue[1]),
                    raised |-> FALSE, hooks |-> hooks]
    ELSE [e |-> e, raised |-> TRUE, hooks |-> hooks]

\* attributeChangedCallback that calls the hooks after its switch.
attributeChangedCallbackSwitchFirst(e, ut, dt, name, oldValue, newValue) ==
    IF ~e.isConnected THEN [e |-> e, raised |-> FALSE, hooks |-> <<>>]
    ELSE IF pluginEvtRaises(e) THEN [e |-> e, raised |-> TRUE, hooks |-> <<>>]
    ELSE LET r == attributeChangedSwitch(e, attributeChangedHooks(e, name, oldValue, newValue),
                                         ut, dt, name, oldValue, newValue)
         IN [r EXCEPT !.e = pluginEvt(@, "attributeChanged")]

\* attributeChangedCallback(name, oldValue, newValue): nothing on a detached element,
\* else the attributeChanged hooks and then the switch.
attributeChangedCallback(e, ut, dt, name, oldValue, newValue) ==
    IF ~e.isConnected THEN [e |-> e, raised |-> FALSE, hooks |-> <<>>]
    ELSE IF pluginEvtRaises(e) THEN [e |-> e, raised |-> TRUE, hooks |-> <<>>]
    ELSE attributeChangedSwitch(pluginEvt(e, "attributeChanged"),
                                attributeChangedHooks(e, name, oldValue, newValue),
                                ut, dt, name, oldValue, newValue)

\* mutationObserverCallback for one attribute mutation, in each of the n observing
\* MutationObservers of the element: it hands on the names of
\* codeInput.observedAttributes and the aria- names, and no others.
RECURSIVE deliverMutation(_, _, _, _, _, _, _)
deliverMutation(e, ut, dt, name, oldValue, newValue, n) ==
    IF n = 0 \/ (name \notin observedAttributes /\ ~IsAria(name))
    THEN [e |-> e, raised |-> FALSE, hooks |-> <<>>]
    ELSE LET both(r, rest) ==
                 [e |-> rest.e, raised |-> r.raised \/ rest.raised,
                  hooks |-> r.hooks \o rest.hooks]
             next(r) == both(r, deliverMutation(r.e, ut, dt, name, oldValue, newValue, n - 1))
         IN next(attributeChangedCallback(e, ut, dt, name, oldValue, newValue))

\* mutationObserverCallback(mutationList): the loop over the records of one batch.
\* The first record whose attribute is in codeInput.observedAttributes or starts
\* with aria- is handed to attributeChangedCallback with the attribute's value as it
\* is now, and the callback returns what that call returns.
RECURSIVE mutationObserverCallback(_, _, _, _)
mutationObserverCallback(e, ut, dt, mutationList) ==
    IF mutationList = <<>> THEN [e |-> e, raised |-> FALSE, hooks |-> <<>>]
    ELSE LET mutation == Head(mutationList)
         IN IF mutation.attributeName \in observedAttributes \/ IsAria(mutation.attributeName)
            THEN attributeChangedCallback(e, ut, dt, mutation.attributeName, mutation.oldValue,
                                          getAttribute(e, mutation.attributeName))
            ELSE mutationObserverCallback(e, ut, dt, Tail(mutationList))

\* One batch of records in each of the n observing MutationObservers of the element.
RECURSIVE deliverMutations(_, _, _, _, _)
deliverMutations(e, ut, dt, mutationList, n) ==
    IF n = 0 THEN [e |-> e, raised |-> FALSE, hooks |-> <<>>]
    ELSE LET both(r, rest) ==
                 [e |-> rest.e, raised |-> r.raised \/ rest.raised,
                  hooks |-> r.hooks \o rest.hooks]
             next(r) == both(r, deliverMutations(r.e, ut, dt, mutationList, n - 1))
         IN next(mutationObserverCallback(e, ut, dt, mutationList))

----------------------------------------------------------------------------
(* Actions: one per handler *)

\* What the code run inside a highlight pass may do to the element.
PassRequests == {NoValue, Some(<<"x">>)}

Fits(w) == QueueSize(w.queue) <= MaxQueue

Commit(w, op, i, name, raised, updates, requests) ==
    /\ usedTemplates' = w.usedTemplates
    /\ defaultTemplate' = w.defaultTemplate
    /\ templateNotYetRegisteredQueue' = w.queue
    /\ elems' = [j \in DOMAIN w.elems |-> [w.elems[j] EXCEPT !.steps = <<>>]]
    /\ requestLog' = w.requestLog
    /\ lastCall' = [op |-> op,               \* the handler
                    elem |-> i,              \* its element, 0 for registerTemplate
                    name |-> name,           \* the attribute changed, the name registered
                    raised |-> raised,       \* it ended in an exception
                    updates |-> updates,     \* update() calls it made
                    requests |-> requests,   \* a frame: the requests it found
                    setups |-> w.setups,
                    resetups |-> w.resetups,
                    calls |-> w.calls,
                    hooks |-> w.hooks,
                    steps |-> [j \in DOMAIN w.elems |-> w.elems[j].steps]]
    /\ UNCHANGED <<observedAttributes, plugins, lastResult>>

\* The element is inserted into the document.
Attach(i, R) ==
    /\ ~elems[i].isConnected
    /\ \E req \in R :
         LET done(w) ==
                 /\ Fits(w)
                 /\ Commit(w, "connectedCallback", i, "", FALSE, Len(w.setups), 0)
         IN done(connectedCallback([World EXCEPT !.elems[i].isConnected = TRUE], i, req))

\* The element is removed from the document.
Detach(i) ==
    /\ elems[i].isConnected
    /\ Commit([World EXCEPT !.elems[i] =
                  disconnectedCallback([elems[i] EXCEPT !.isConnected = FALSE])],
              "disconnectedCallback", i, "", FALSE, 0, 0)

\* A script calls codeInput.registerTemplate(templateName, template).
Register(templateName, template, R) ==
    IF IsValidRegistration(templateName, template)
    THEN \E req \in R :
           LET done(w) ==
                   /\ Fits(w)
                   /\ Commit(w, "registerTemplate", 0, templateName, FALSE, Len(w.setups), 0)
           IN done(registerTemplate(World, templateName, template, req))
    ELSE Commit(World, "registerTemplate", 0, "", TRUE, 0, 0)

\* A script sets (attr = Some(text)) or removes (attr = NoValue) an attribute of the
\* element; its observing MutationObservers are then notified.
ChangeAttribute(i, name, attr) ==
    LET e == elems[i]
        oldValue == getAttribute(e, name)
        changed == [e EXCEPT !.attrs =
                      IF attr = NoValue
                      THEN [n \in DOMAIN e.attrs \ {name} |-> e.attrs[n]]
                      ELSE [n \in DOMAIN e.attrs \cup {name} |->
                              IF n = name THEN attr[1] ELSE e.attrs[n]]]
        done(r) == Commit([World EXCEPT !.elems[i] = r.e, !.hooks = r.hooks],
                          "setAttribute", i, name, r.raised, 0, 0)
    IN /\ attr # oldValue
       /\ done(deliverMutation(changed, usedTemplates, defaultTemplate,
                               name, oldValue, attr, activeObservers(e)))

\* element.setAttribute(name, text) or element.removeAttribute(name) on the attributes
\* of the element alone.
withAttribute(e, name, attr) ==
    [e EXCEPT !.attrs =
        IF attr = NoValue
        THEN [n \in DOMAIN e.attrs \ {name} |-> e.attrs[n]]
        ELSE [n \in DOMAIN e.attrs \cup {name} |-> IF n = name THEN attr[1] ELSE e.attrs[n]]]

\* A script changes two attributes of the element one after the other in one task:
\* its observing MutationObservers are then notified once, with both records.
ChangeAttributes(i, first, second) ==
    LET e == elems[i]
        changed == withAttribute(e, first.name, first.attr)
        mutationList ==
            <<[attributeName |-> first.name, oldValue |-> getAttribute(e, first.name)],
              [attributeName |-> second.name, oldValue |-> getAttribute(changed, second.name)]>>
        done(r) == Commit([World EXCEPT !.elems[i] = r.e, !.hooks = r.hooks],
                          "setAttributes", i, first.name, r.raised, 0, 0)
    IN /\ first.attr # getAttribute(e, first.name)
       /\ second.attr # getAttribute(changed, second.name)
       /\ done(deliverMutations(withAttribute(changed, second.name, second.attr),
                                usedTemplates, defaultTemplate, mutationList,
                                activeObservers(e)))

\* A script assigns element.value = v.
SetValue(i, v) ==
    IF elems[i].textareaElement = 0
    THEN Commit(World, "setValue", i, "", TRUE, 0, 0)
    ELSE Commit([World EXCEPT !.elems[i] = setValue(elems[i], Some(v))],
                "setValue", i, "", FALSE, 0, 0)

\* The user edits the textarea to hold v; the input listener copies it to value.
InputEvent(i, v) ==
    /\ elems[i].textareaElement # 0
    /\ elems[i].isConnected
    /\ v # elems[i].textareaValue
    /\ Commit([World EXCEPT !.elems[i] =
                  setValue([elems[i] EXCEPT !.textareaValue = v], Some(v))],
              "input", i, "", FALSE, 0, 0)

\* formResetCallback(): the form of the element is reset.
FormReset(i) ==
    /\ elems[i].textareaElement # 0
    /\ Commit([World EXCEPT !.elems[i] = setValue(elems[i], Some(elems[i].initialValue))],
              "formReset", i, "", FALSE, 0, 0)

\* The browser runs one pending requestAnimationFrame callback of the element.
Tick(i, R) ==
    /\ elems[i].pendingFrames > 0
    /\ \E req \in R :
         \E r \in {animateFrame([elems[i] EXCEPT !.pendingFrames = @ - 1], req)} :
             Commit([World EXCEPT !.elems[i] = r.e], "animateFrame", i, "",
                    r.raised, r.updates, elems[i].requests)

\* A script calls element.addEventListener(type, listener).
AddListener(i, type, listener) ==
    LET e == addEventListener(elems[i], type, listener)
    IN /\ elems[i].callbacksCreated + 2 <= MaxCallbacks
       /\ Commit([World EXCEPT !.elems[i] = e], "addEventListener", i, type, FALSE, 0, 0)

\* A script calls element.removeEventListener(type, listener).
RemoveListener(i, type, listener) ==
    LET e == removeEventListener(elems[i], type, listener)
    IN /\ elems[i].callbacksCreated + 1 <= MaxCallbacks
       /\ Commit([World EXCEPT !.elems[i] = e], "removeEventListener", i, type, FALSE, 0, 0)

\* The event types scripts listen to: one the library forwards to the textarea, one
\* it does not.
EventTypes == {"input", "click"}

\* A plugin file runs new codeInput.Plugin(observedAttributes) for its plugin.
ConstructPlugin(plugin) ==
    /\ ~(plugin.observedAttributes \subseteq observedAttributes)
    /\ observedAttributes' = observedAttributes \cup plugin.observedAttributes
    /\ UNCHANGED <<usedTemplates, defaultTemplate, templateNotYetRegisteredQueue, elems,
                   plugins, requestLog, lastCall, lastResult>>

\* The calls of registerTemplate that scripts make: each name with the template the
\* page gives it, and each way a call can be malformed.
Registrations ==
    {<<"a", TplPlain>>, <<"b", TplPlugin>>}
    \cup {<<NonStringName, TplPlain>>}
    \cup {<<"a", t>> : t \in MalformedTemplates}

TemplateAttrs == {NoValue} \cup {Some(n) : n \in Names}
ValueAttrOptions == {NoValue} \cup {Some(v) : v \in ValueAttrs}

\* No function has been called yet.
NoResult == [fn |-> "none", arg |-> <<>>, value |-> <<>>, raised |-> FALSE]

\* The page as the scripts find it: nothing registered, the elements of I created
\* with some inner content and not yet attached.
InitOn(I, contents) ==
    /\ usedTemplates = <<>>
    /\ defaultTemplate = Undefined
    /\ templateNotYetRegisteredQueue = <<>>
    /\ elems \in [Instances -> {NewElement(c) : c \in contents \cup {<<>>}}]
    /\ \A i \in I : elems[i].innerHTML \in contents
    /\ \A i \in Instances \ I : elems[i] = NewElement(<<>>)
    /\ observedAttributes = builtinObservedAttributes
    /\ plugins = <<>>
    /\ requestLog = <<>>
    /\ lastResult = NoResult
    /\ lastCall = [op |-> "none", elem |-> 0, name |-> "", raised |-> FALSE,
                   updates |-> 0, requests |-> 0, setups |-> <<>>, resetups |-> <<>>,
                   calls |-> <<>>,
                   hooks |-> <<>>,
                   steps |-> [i \in Instances |-> <<>>]]

DoAttach(I, R) == \E i \in I : Attach(i, R)
DoDetach(I) == \E i \in I : Detach(i)
DoRegister(R) == \E c \in Registrations : Register(c[1], c[2], R)
DoRegisterWellFormed(R) ==
    \E c \in {<<"a", TplPlain>>, <<"b", TplPlugin>>} : Register(c[1], c[2], R)
DoTemplateAttribute(I) == \E i \in I, a \in TemplateAttrs : ChangeAttribute(i, "template", a)
DoTemplateAttributeBeforeSetup(I) ==
    \E i \in I, a \in TemplateAttrs :
        elems[i].textareaElement = 0 /\ ChangeAttribute(i, "template", a)
DoValueAttribute(I) == \E i \in I, a \in ValueAttrOptions : ChangeAttribute(i, "value", a)
DoSetValue(I) == \E i \in I, v \in Values : SetValue(i, v)
DoInput(I) == \E i \in I, v \in Values : InputEvent(i, v)
DoFormReset(I) == \E i \in I : FormReset(i)
DoTick(I, R) == \E i \in I : Tick(i, R)
DoAddListener(I) ==
    \E i \in I, type \in EventTypes, listener \in Listeners : AddListener(i, type, listener)
DoRemoveListener(I) ==
    \E i \in I, type \in EventTypes, listener \in Listeners :
        RemoveListener(i, type, listener)

\* The life cycle of one element: attach, detach, registrations, template changes, frames.
Init == InitOn(Focus, {Lt})

Next ==
    \/ DoAttach(Focus, {NoValue})
    \/ DoDetach(Focus)
    \/ DoRegister({NoValue})
    \/ DoTemplateAttribute(Focus)
    \/ DoTick(Focus, {NoValue})

Spec == Init /\ [][Next]_vars

\* The highlight loop of one element: every way its value changes, and frames.
InitLoop == InitOn(Focus, {<<>>})

NextLoop ==
    \/ DoAttach(Focus, PassRequests)
    \/ DoRegisterWellFormed(PassRequests)
    \/ DoTemplateAttribute(Focus)
    \/ DoValueAttribute(Focus)
    \/ DoSetValue(Focus)
    \/ DoInput(Focus)
    \/ DoFormReset(Focus)
    \/ DoTick(Focus, PassRequests)

SpecLoop == InitLoop /\ [][NextLoop]_vars

\* The registry with every element of the page: attach, detach, registrations, and
\* template attributes set before an element is set up.
InitRegistry == InitOn(Instances, {<<>>})

NextRegistry ==
    \/ DoAttach(Instances, {NoValue})
    \/ DoDetach(Instances)
    \/ DoRegister({NoValue})
    \/ DoTemplateAttributeBeforeSetup(Instances)

SpecRegistry == InitRegistry /\ [][NextRegistry]_vars

\* The queue with every element of the page: as the registry, with the registrations
\* that pass the checks only.
DoRegisterValid == \E name \in Names : Register(name, TplPlain, {NoValue})

InitQueue == InitOn(Instances, {<<>>})

NextQueue ==
    \/ DoAttach(Instances, {NoValue})
    \/ DoDetach(Instances)
    \/ DoRegisterValid
    \/ DoTemplateAttributeBeforeSetup(Instances)

SpecQueue == InitQueue /\ [][NextQueue]_vars

----------------------------------------------------------------------------
(* Text conversion and the plugin store *)

MaxTextLen == 2         \* length of the texts handed to escapeHtml

TextAlphabet == {"a", "&", "<", ">"}
MarkupAlphabet == {"&", "<", ">"}

\* The texts over alphabet of at most n characters.
TextsUpTo(alphabet, n) == UNION {[1..k -> alphabet] : k \in 0..n}

\* The text of the README's example.
SampleText == <<"a", "&", "b", "<", "c">>

PluginNames == {"p", "toString"}
PluginObjects == {"plugin 1", "plugin 2"}      \* the identities of plugin objects

\* The target of the proxy is an object literal: a name it does not hold itself is
\* looked up in Object.prototype.
ObjectPrototype == [n \in {"toString"} |-> "function toString"]

\* target[name] of a property read: own, then inherited, then undefined.
GetProperty(store, name) ==
    IF name \in DOMAIN store THEN Some(store[name])
    ELSE IF name \in DOMAIN ObjectPrototype THEN Some(ObjectPrototype[name])
    ELSE NoValue

\* The get trap of the codeInput.plugins proxy over the stored plugins.
pluginsGet(store, name) ==
    IF GetProperty(store, name) = NoValue
    THEN [value |-> <<"code-input: Plugin '", name, "' is not defined.">>, raised |-> TRUE]
    ELSE [value |-> GetProperty(store, name), raised |-> FALSE]

\* A script calls element.escapeHtml(text).
CallEscapeHtml(text) ==
    /\ lastResult' = [fn |-> "escapeHtml", arg |-> text,
                      value |-> escapeHtml(text), raised |-> FALSE]
    /\ UNCHANGED <<usedTemplates, defaultTemplate, templateNotYetRegisteredQueue, elems,
                   observedAttributes, plugins, requestLog, lastCall>>

\* A script hands what escapeHtml gave it to element.unescapeHtml.
CallUnescapeHtml ==
    /\ lastResult.fn = "escapeHtml"
    /\ lastResult' = [fn |-> "unescapeHtml", arg |-> lastResult.value,
                      value |-> unescapeHtml(lastResult.value), raised |-> FALSE]
    /\ UNCHANGED <<usedTemplates, defaultTemplate, templateNotYetRegisteredQueue, elems,
                   observedAttributes, plugins, requestLog, lastCall>>

\* A plugin file runs codeInput.plugins[name] = plugin (the proxy has no set trap).
StorePlugin(name, plugin) ==
    /\ name \notin DOMAIN plugins
    /\ plugins' = [n \in DOMAIN plugins \cup {name} |->
                      IF n = name THEN plugin ELSE plugins[n]]
    /\ UNCHANGED <<usedTemplates, defaultTemplate, templateNotYetRegisteredQueue, elems,
                   observedAttributes, requestLog, lastCall, lastResult>>

\* A script reads codeInput.plugins[name].
ReadPlugin(name) ==
    LET r == pluginsGet(plugins, name)
    IN /\ lastResult' = [fn |-> "plugins.get", arg |-> <<name>>,
                         value |-> r.value, raised |-> r.raised]
       /\ UNCHANGED <<usedTemplates, defaultTemplate, templateNotYetRegisteredQueue, elems,
                      observedAttributes, plugins, requestLog, lastCall>>

DoEscapeHtml == \E text \in TextsUpTo(TextAlphabet, MaxTextLen) : CallEscapeHtml(text)
DoUnescapeHtml == CallUnescapeHtml
DoStorePlugin == \E name \in PluginNames, plugin \in PluginObjects : StorePlugin(name, plugin)
DoReadPlugin == \E name \in PluginNames : ReadPlugin(name)
DoRegisterPlain == Register("a", TplPlain, {NoValue})
DoSetSampleValue(I) == \E i \in I, v \in {<<>>, SampleText} : SetValue(i, v)

\* Texts: the conversions on every short text, and one element that is set up and
\* given the sample text.
InitText == InitOn(Focus, {<<>>})

NextText ==
    \/ DoAttach(Focus, {NoValue})
    \/ DoRegisterPlain
    \/ DoSetSampleValue(Focus)
    \/ DoTick(Focus, {NoValue})
    \/ DoEscapeHtml
    \/ DoUnescapeHtml

SpecText == InitText /\ [][NextText]_vars

\* Event listeners of one element, added and removed before and after it is set up.
InitEvents == InitOn(Focus, {<<>>})

NextEvents ==
    \/ DoAttach(Focus, {NoValue})
    \/ DoRegisterPlain
    \/ DoAddListener(Focus)
    \/ DoRemoveListener(Focus)

SpecEvents == InitEvents /\ [][NextEvents]_vars

\* The attributes a script changes on the element, and the texts it gives them.
AttrNames == {"disabled", "aria-label", "data-limit"}
AttrTexts(name) ==
    CASE name = "disabled" -> {<<>>}
      [] name = "aria-label" -> {<<"x">>, <<"y">>}
      [] name = "data-limit" -> {<<"5">>}
LangTexts == {<<"j", "s">>, <<"J", "S">>, <<"p", "y">>}

DoAttribute(I) ==
    \E i \in I, name \in AttrNames :
        \E a \in {NoValue} \cup {Some(v) : v \in AttrTexts(name)} : ChangeAttribute(i, name, a)
DoLangAttribute(I) ==
    \E i \in I, a \in {NoValue} \cup {Some(v) : v \in LangTexts} : ChangeAttribute(i, "lang", a)
DoConstructPlugin == ConstructPlugin(PluginLimit)
DoRegisterPrism == Register("a", TplPrism, {NoValue})
\* The plugin of a template is constructed before the template is.
DoRegisterLimit ==
    /\ PluginLimit.observedAttributes \subseteq observedAttributes
    /\ Register("a", TplLimit, {NoValue})

\* Attributes of one element, changed before and after it is set up with a template
\* whose plugin watches data-limit.
InitAttrs == InitOn(Focus, {<<>>})

NextAttrs ==
    \/ DoAttach(Focus, {NoValue})
    \/ DoConstructPlugin
    \/ DoRegisterLimit
    \/ DoAttribute(Focus)

SpecAttrs == InitAttrs /\ [][NextAttrs]_vars

\* The lang attribute of one element, changed before and after it is set up with the
\* Prism template or a plain one, and the frames of its highlight loop.
InitLang == InitOn(Focus, {<<>>})

NextLang ==
    \/ DoAttach(Focus, {NoValue})
    \/ DoRegisterPrism
    \/ DoRegisterPlain
    \/ DoLangAttribute(Focus)
    \/ DoTick(Focus, {NoValue})

SpecLang == InitLang /\ [][NextLang]_vars

\* Plugin files loading: each stores its plugin under its name, one constructs a
\* plugin and registers a template with it; scripts read the store.
InitPlugins == InitOn(Focus, {<<>>})

NextPlugins ==
    \/ DoStorePlugin
    \/ DoReadPlugin
    \/ DoConstructPlugin
    \/ DoRegisterLimit
    \/ DoAttach(Focus, {NoValue})

SpecPlugins == InitPlugins /\ [][NextPlugins]_vars

\* Frames: one element whose highlight function may throw in a pass.
InitFrames == InitOn(Focus, {<<>>})

NextFrames ==
    \/ DoAttach(Focus, {NoValue})
    \/ DoDetach(Focus)
    \/ DoRegisterWellFormed({NoValue})
    \/ DoSetValue(Focus)
    \/ DoValueAttribute(Focus)
    \/ DoTick(Focus, {NoValue, PassRaises})

SpecFrames == InitFrames /\ [][NextFrames]_vars

\* Hooks: one element under a template with three plugins, each with some of the
\* hooks, and under one whose highlight function takes the element.
InitHooks == InitOn(Focus, {<<>>})

DoRegisterHooks == Register("a", TplHooks, {NoValue}) \/ Register("b", TplPlugin, {NoValue})

NextHooks ==
    \/ DoAttach(Focus, {NoValue})
    \/ DoRegisterHooks
    \/ DoTemplateAttribute(Focus)
    \/ DoSetValue(Focus)
    \/ DoTick(Focus, {NoValue})

SpecHooks == InitHooks /\ [][NextHooks]_vars

\* Notifications: one attribute of each branch of attributeChangedCallback, changed
\* on an element under the template with three plugins or the one of PluginLimit
\* while the element has no other attribute.
NotifiedNames == {"value", "template", "lang", "aria-label", "data-limit"}
NotifiedTexts(name) ==
    CASE name = "value" -> {<<"&">>}
      [] name = "template" -> Names
      [] name = "lang" -> {<<"j", "s">>, <<"J", "S">>}
      [] name = "aria-label" -> {<<"x">>}
      [] name = "data-limit" -> {<<"5">>}

DoNotifiedAttribute(I) ==
    \E i \in I, name \in NotifiedNames :
        \E a \in {NoValue} \cup {Some(v) : v \in NotifiedTexts(name)} :
            /\ DOMAIN elems[i].attrs \subseteq {name}
            /\ ChangeAttribute(i, name, a)

InitNotify == InitOn(Focus, {<<>>})

NextNotify ==
    \/ DoAttach(Focus, {NoValue})
    \/ DoConstructPlugin
    \/ DoRegisterLimit
    \/ Register("b", TplHooks, {NoValue})
    \/ DoNotifiedAttribute(Focus)

SpecNotify == InitNotify /\ [][NextNotify]_vars

\* Initial values: one element that starts with inner content or without, with a
\* fallback textarea or without, and with a placeholder or a value attribute or
\* none; it is set up, edited and reset.
Fallbacks ==
    {NoValue}
    \cup {Some([value |-> v, attrs |-> a]) :
              v \in {<<>>, <<"x">>},
              a \in {("code-input-fallback" :> <<>>),
                     ("code-input-fallback" :> <<>>) @@ ("placeholder" :> <<"p">>)}}
HostAttrs == {<<>>, ("placeholder" :> <<"q">>), ("value" :> <<"&">>)}

InitFallback ==
    /\ usedTemplates = <<>>
    /\ defaultTemplate = Undefined
    /\ templateNotYetRegisteredQueue = <<>>
    /\ elems \in [Instances ->
                    {[NewElement(c) EXCEPT !.fallback = f, !.attrs = a] :
                        c \in InnerContents, f \in Fallbacks, a \in HostAttrs}]
    /\ \A i \in Instances \ Focus : elems[i] = NewElement(<<>>)
    /\ observedAttributes = builtinObservedAttributes
    /\ plugins = <<>>
    /\ requestLog = <<>>
    /\ lastResult = NoResult
    /\ lastCall = [op |-> "none", elem |-> 0, name |-> "", raised |-> FALSE,
                   updates |-> 0, requests |-> 0, setups |-> <<>>, resetups |-> <<>>,
                   calls |-> <<>>,
                   hooks |-> <<>>,
                   steps |-> [i \in Instances |-> <<>>]]

NextFallback ==
    \/ DoAttach(Focus, {NoValue})
    \/ DoRegisterPlain
    \/ DoSetValue(Focus)
    \/ DoFormReset(Focus)
    \/ DoTick(Focus, {NoValue})

SpecFallback == InitFallback /\ [][NextFallback]_vars

----------------------------------------------------------------------------
(* Properties of the highlight loop *)

\* C1: coalescing.  A frame of a built element that finds one or more highlight
\* requests made since the frame before it runs exactly one highlight pass, and a
\* frame that finds needsHighlight clear runs none.
C1_Coalescing ==
    [][\A i \in Instances :
          (lastCall'.op = "animateFrame" /\ lastCall'.elem = i)
          => /\ (elems[i].requests >= 1 => lastCall'.updates = 1)
             /\ (~elems[i].needsHighlight => lastCall'.updates = 0)]_vars

\* A frame has run one pass for two or more requests.
C1_Witness ==
    /\ lastCall.op = "animateFrame"
    /\ lastCall.requests >= 2
    /\ lastCall.updates = 1
    /\ ~lastCall.raised

\* C2: surface sync.  Whenever a built element's needsHighlight is clear, the text
\* update() last wrote into the code node is escapeHtml(value + "\n") for the value the
\* textarea holds now.
C2_SurfaceSync ==
    \A i \in Instances :
        (elems[i].textareaElement # 0 /\ ~elems[i].needsHighlight)
        => elems[i].codeInnerHTML = escapeHtml(elems[i].textareaValue \o Newline)

----------------------------------------------------------------------------
(* Properties of the registry *)

Range(seq) == {seq[k] : k \in 1..Len(seq)}

\* seq without the later occurrences of each of its members.
RECURSIVE FirstOccurrences(_)
FirstOccurrences(seq) ==
    IF seq = <<>> THEN <<>>
    ELSE LET front == FirstOccurrences(SubSeq(seq, 1, Len(seq) - 1))
             last == seq[Len(seq)]
         IN IF last \in Range(front) THEN front ELSE Append(front, last)

Bucket(name) ==
    IF name \in DOMAIN templateNotYetRegisteredQueue
    THEN templateNotYetRegisteredQueue[name] ELSE <<>>

Unbuilt(i) == elems[i].textareaElement = 0

\* The template attribute of element i, or dflt when it has none, is in registered.
Resolves(i, registered, dflt) ==
    LET attr == getAttribute(elems[i], "template")
    IN IF attr = NoValue THEN dflt \in registered ELSE attr[1] \in registered

\* The step is a successful registerTemplate(name, ...).
Registered(name) ==
    /\ lastCall'.op = "registerTemplate"
    /\ ~lastCall'.raised
    /\ lastCall'.name = name

\* Element i asks for name: by its template attribute, or without one while there is
\* no default.
Requests(i, name) ==
    LET attr == getAttribute(elems[i], "template")
    IN attr = Some(name) \/ (attr = NoValue /\ defaultTemplate = Undefined)

\* The unbuilt elements that ask for name and whose getTemplate calls were queued for
\* it, or for the default while there was none, in the order of those calls.
RequestersInCallOrder(name) ==
    LET wanted == {name} \cup (IF defaultTemplate = Undefined THEN {Undefined} ELSE {})
        asked == SelectSeq(requestLog,
                           LAMBDA r : /\ r.name \in wanted
                                      /\ Unbuilt(r.elem)
                                      /\ Requests(r.elem, name))
    IN FirstOccurrences([k \in 1..Len(asked) |-> asked[k].elem])

\* C3 as stated: a successful registerTemplate(name, t) sets up exactly the elements
\* that requested name, or the default while there was none, in the order of their
\* getTemplate calls.
C3_RequestOrder ==
    [][\A name \in Names :
          Registered(name) => lastCall'.setups = RequestersInCallOrder(name)]_vars

\* The elements a registerTemplate(name, t) sets up, from the state before it: the
\* bucket of name in its order, then, when there was no default, the bucket of the
\* unset name in its order followed by the members of the bucket of name that have no
\* template attribute; of these the unbuilt ones whose template attribute (the default
\* without one) is registered by then, each once.
ReplayOrder(name) ==
    LET registered == DOMAIN usedTemplates \cup {name}
        first == FirstOccurrences(
                     SelectSeq(Bucket(name),
                               LAMBDA i : Unbuilt(i)
                                          /\ Resolves(i, registered, defaultTemplate)))
        requeued == SelectSeq(Bucket(name),
                              LAMBDA i : getAttribute(elems[i], "template") = NoValue)
        second == IF defaultTemplate # Undefined THEN <<>>
                  ELSE FirstOccurrences(
                           SelectSeq(Bucket(Undefined) \o requeued,
                                     LAMBDA i : /\ Unbuilt(i)
                                                /\ i \notin Range(first)
                                                /\ Resolves(i, registered, name)))
    IN first \o second

\* C3, amended: a successful registerTemplate(name, t) sets up exactly the unbuilt
\* elements of the bucket of name and, when name becomes the default, of the bucket of
\* the unset name, whose template attribute at the time of the call is registered (name
\* included; the default for an element without the attribute); it sets them up bucket
\* by bucket, the bucket of name first, each bucket in its queue order.
C3_ReplayOrder ==
    [][\A name \in Names :
          Registered(name) => lastCall'.setups = ReplayOrder(name)]_vars

\* A registration has set up two elements, the first from the bucket of its name and
\* the second from the bucket of the unset name, whose request was the earlier one.
C3_Witness ==
    /\ lastCall.op = "registerTemplate"
    /\ Len(lastCall.setups) = 2
    /\ Len(requestLog) >= 2
    /\ requestLog[1] = [elem |-> lastCall.setups[2], name |-> Undefined]
    /\ \E k \in 2..Len(requestLog) :
           requestLog[k] = [elem |-> lastCall.setups[1], name |-> lastCall.name]

Occurrences(i) ==
    SumLen([n \in DOMAIN templateNotYetRegisteredQueue |->
               SelectSeq(templateNotYetRegisteredQueue[n], LAMBDA j : j = i)],
           DOMAIN templateNotYetRegisteredQueue)

\* C4: queue uniqueness.  Every element occurs at most once in the buckets of
\* templateNotYetRegisteredQueue taken together.
C4_QueueUnique == \A i \in Instances : Occurrences(i) <= 1

\* C5: after registerTemplate returns, none of the elements it set up is in a bucket
\* of templateNotYetRegisteredQueue.
C5_RemovedOnceResolved ==
    (lastCall.op = "registerTemplate" /\ ~lastCall.raised)
    => \A i \in Range(lastCall.setups) : Occurrences(i) = 0

\* The call registerTemplate(c[1], c[2]) fails one of the checks of lines 112-123.
Malformed(c) == c[1] = NonStringName \/ c[2] \in MalformedTemplates

\* C6: registerTemplate raises for a name that is not a string, a highlight that is
\* not a function, a flag that is not a boolean, plugins that are not an array or hold
\* something that is not a Plugin; the registry, the queue and the elements are then
\* as before and no connectedCallback has run.
C6_ValidationRaises ==
    [][lastCall'.op = "registerTemplate"
       => \A c \in Registrations :
             (Malformed(c) /\ Register(c[1], c[2], {NoValue}))
             => /\ lastCall'.raised
                /\ lastCall'.setups = <<>>
                /\ lastCall'.resetups = <<>>
                /\ UNCHANGED <<usedTemplates, defaultTemplate,
                               templateNotYetRegisteredQueue, elems, requestLog>>]_vars

\* A registration has raised while elements were waiting in the queue.
C6_Witness ==
    /\ lastCall.op = "registerTemplate"
    /\ lastCall.raised
    /\ QueueSize(templateNotYetRegisteredQueue) > 0
    /\ usedTemplates = <<>>

----------------------------------------------------------------------------
(* Properties of the life cycle *)

\* The name element i asks for now.
RequestedName(i) ==
    LET attr == getAttribute(elems[i], "template")
    IN IF attr = NoValue THEN defaultTemplate ELSE attr[1]

\* C8: an unresolved template name is never an error.  When the handler that has just
\* run made element i ask for a name that is not registered (connectedCallback, or a
\* change of the template attribute of a connected, built element) it raised nothing
\* and i is in the bucket of that name; and no frame of an element raises.
C8_UnresolvedIsNoError ==
    \A i \in Instances :
        /\ ( /\ lastCall.elem = i
             /\ RequestedName(i) \notin DOMAIN usedTemplates
             /\ \/ lastCall.op = "connectedCallback"
                \/ /\ lastCall.op = "setAttribute"
                   /\ lastCall.name = "template"
                   /\ elems[i].isConnected
                   /\ elems[i].textareaElement # 0 )
           => /\ ~lastCall.raised
              /\ i \in Range(Bucket(RequestedName(i)))
        /\ (lastCall.elem = i /\ lastCall.op = "animateFrame") => ~lastCall.raised

\* Element i has no template attribute, is in the bucket of the unset name and waits.
QueuedForDefault(i) ==
    /\ getAttribute(elems[i], "template") = NoValue
    /\ defaultTemplate = Undefined
    /\ i \in Range(Bucket(Undefined))

\* C9: an element without a template attribute that is inserted before any template
\* is registered is in the bucket of the unset name, has no surfaces and has fired no
\* code-input_load; the first successful registerTemplate then sets it up and marks it
\* code-input_loaded, and when the call returns the code node holds
\* escapeHtml(initial value + "\n") and needsHighlight is clear.
C9_QueuedThenLoaded ==
    [][\A i \in Instances :
          /\ ( /\ lastCall'.op = "connectedCallback"
               /\ lastCall'.elem = i
               /\ getAttribute(elems[i], "template") = NoValue
               /\ usedTemplates = <<>> )
             => /\ i \in Range(templateNotYetRegisteredQueue'[Undefined])
                /\ elems'[i].textareaElement = 0
                /\ elems'[i].children = <<>>
                /\ elems'[i].loadEvents = 0
                /\ LoadedClass \notin elems'[i].classList
          /\ ( /\ lastCall'.op = "registerTemplate"
               /\ ~lastCall'.raised
               /\ usedTemplates = <<>>
               /\ QueuedForDefault(i) )
             => /\ elems'[i].textareaElement # 0
                /\ LoadedClass \in elems'[i].classList
                /\ elems'[i].loadEvents = 1
                /\ elems'[i].codeInnerHTML = escapeHtml(initialText(elems[i]) \o Newline)
                /\ ~elems'[i].needsHighlight]_vars

\* The first registration has set up an element that waited for the default; its
\* initial value is "<" and its code node holds "&lt;" and the newline.
C9_Witness ==
    /\ lastCall.op = "registerTemplate"
    /\ \E i \in Instances :
          /\ lastCall.setups = <<i>>
          /\ requestLog # <<>>
          /\ requestLog[1] = [elem |-> i, name |-> Undefined]
          /\ elems[i].initialValue = <<"<">>
          /\ elems[i].codeInnerHTML = Lt \o Newline
          /\ LoadedClass \in elems[i].classList

\* The nodes setup() gave element e.
Surfaces(e) ==
    <<e.textareaElement, e.codeElement, e.preElement, e.dialogContainerElement>>

\* C10: setup is idempotent.  The surfaces of an element are created at most once: a
\* built element keeps its nodes through every step, and its children are its one
\* textarea, its one pre and its one dialog container; a connectedCallback or a
\* registerTemplate replay that finds an element built leaves its value, its
\* needsHighlight and its pending frames as they are.
C10_SetupIdempotent ==
    [][\A i \in Instances :
          /\ elems'[i].textareaElement # 0
             => /\ elems'[i].children = <<elems'[i].textareaElement,
                                          elems'[i].preElement,
                                          elems'[i].dialogContainerElement>>
                /\ elems'[i].nodesCreated = Cardinality(Range(Surfaces(elems'[i]))) + 1
          /\ elems[i].textareaElement # 0
             => /\ Surfaces(elems'[i]) = Surfaces(elems[i])
                /\ elems'[i].nodesCreated = elems[i].nodesCreated
                /\ elems'[i].children = elems[i].children
                /\ elems'[i].loadEvents = elems[i].loadEvents
                /\ lastCall'.op \in {"connectedCallback", "registerTemplate"}
                   => /\ elems'[i].textareaValue = elems[i].textareaValue
                      /\ elems'[i].codeInnerHTML = elems[i].codeInnerHTML
                      /\ elems'[i].needsHighlight = elems[i].needsHighlight
                      /\ elems'[i].pendingFrames = elems[i].pendingFrames]_vars

\* A registerTemplate replay has called setup() on an element that was built and had
\* fired its code-input_load before.
C10_Witness ==
    /\ lastCall.op = "registerTemplate"
    /\ lastCall.resetups # <<>>
    /\ lastCall.setups = <<>>
    /\ \A i \in Range(lastCall.resetups) :
           elems[i].textareaElement # 0 /\ elems[i].loadEvents = 1

\* The steps of the last handler on element i, and where a step is in them.
StepsOf(i) == lastCall.steps[i]
StepNames(i) == [k \in DOMAIN StepsOf(i) |-> StepsOf(i)[k].step]
Positions(i, step) == {k \in DOMAIN StepsOf(i) : StepsOf(i)[k].step = step}

\* C23: the load event is one-shot.  An element has dispatched code-input_load once
\* when it is built and never before, whatever attaches, detaches, registrations,
\* template changes and frames it has seen; the handler that dispatches it has
\* created the textarea, the pre and code nodes and the dialog container first.
C23_LoadOnce ==
    \A i \in Instances :
        /\ elems[i].loadEvents = (IF elems[i].textareaElement # 0 THEN 1 ELSE 0)
        /\ elems[i].loadEvents >= 1 => \A k \in 1..4 : Surfaces(elems[i])[k] # 0
        /\ \A k \in Positions(i, "code-input_load") :
               /\ Positions(i, "code-input_load") = {k}
               /\ \E j \in Positions(i, "surfaces") : j < k

\* A built element that had dispatched its load event has been detached and attached
\* again, and this connectedCallback has dispatched nothing.
C23_Witness ==
    /\ lastCall.op = "connectedCallback"
    /\ lastCall.resetups # <<>>
    /\ \A i \in Range(lastCall.resetups) :
           elems[i].loadEvents = 1 /\ Positions(i, "code-input_load") = {}

----------------------------------------------------------------------------
(* Properties of a frame and of a highlight pass *)

\* C24: every frame ends by requesting the next one.  The last thing an animateFrame
\* call on an element has done is requestAnimationFrame, also when its highlight
\* pass raised.
C24_FrameRequestsNext ==
    \A i \in Instances :
        (lastCall.op = "animateFrame" /\ lastCall.elem = i)
        => /\ StepsOf(i) # <<>>
           /\ StepsOf(i)[Len(StepsOf(i))].step = "requestAnimationFrame"

\* The calls of one hook that pluginEvt makes under a template: the plugins that
\* have the hook, in the order of the template's array.
HookSteps(tpl, eventName) ==
    SelectSeq([k \in 1..Len(tpl.plugins.items) |-> Step(eventName, k)],
              LAMBDA s : eventName \in tpl.plugins.items[s.arg].hooks)

\* One highlight pass under a template.
PassSteps(tpl) ==
    <<Step("innerHTML", 0)>>
    \o HookSteps(tpl, "beforeHighlight")
    \o <<Step("highlight", IF tpl.includeCodeInputInHighlightFunc = "true" THEN 2 ELSE 1)>>
    \o <<Step("syncSize", 0)>>
    \o HookSteps(tpl, "afterHighlight")

\* C25: the order of a highlight pass.  A frame that runs a pass writes
\* escapeHtml(value + "\n") into the code node, calls beforeHighlight on the plugins
\* that have it in the order of the array, calls the highlight function once, with
\* the node and the element when includeCodeInputInHighlightFunc is set and with
\* the node when it is not, calls syncSize and calls afterHighlight on the plugins
\* that have it in order; a plugin without the hook is passed over.
C25_PassOrder ==
    \A i \in Instances :
        (lastCall.op = "animateFrame" /\ lastCall.elem = i /\ lastCall.updates = 1
            /\ ~lastCall.raised)
        => /\ StepsOf(i) = PassSteps(elems[i].template)
                              \o <<Step("requestAnimationFrame", 0)>>
           /\ elems[i].codeInnerHTML = escapeHtml(elems[i].textareaValue \o Newline)

\* A frame has run a pass under the template whose first plugin has no afterHighlight
\* and whose last plugin has no beforeHighlight.
C25_Witness ==
    /\ lastCall.op = "animateFrame"
    /\ lastCall.updates = 1
    /\ ~lastCall.raised
    /\ \E i \in Instances :
          /\ lastCall.elem = i
          /\ elems[i].template = TplHooks
          /\ elems[i].textareaValue # <<>>
          /\ Len(StepsOf(i)) = 8

\* C30: the order of setup.  A handler that sets an element up has called
\* beforeElementsAdded on the plugins that have it, created the textarea, the pre and
\* code nodes and the dialog container, called afterElementsAdded on the plugins
\* that have it, dispatched code-input_load, set the value, and called
\* animateFrame(), which has run the first highlight pass and requested the next
\* frame -- in this order, so that no beforeHighlight, highlight or afterHighlight
\* call comes before the load event.
C30_SetupOrder ==
    \A i \in Instances :
        (lastCall.op \in {"connectedCallback", "registerTemplate"}
            /\ i \in Range(lastCall.setups))
        => /\ StepsOf(i) =
                 HookSteps(elems[i].template, "beforeElementsAdded")
                 \o <<Step("surfaces", 0)>>
                 \o HookSteps(elems[i].template, "afterElementsAdded")
                 \o <<Step("code-input_load", 0), Step("value", 0)>>
                 \o PassSteps(elems[i].template)
                 \o <<Step("requestAnimationFrame", 0)>>
           /\ ~elems[i].needsHighlight
           /\ elems[i].pendingFrames = 1

\* A connectedCallback has set an element up under the template with three plugins:
\* two hook calls around the surfaces on each side, the load event, the value, a
\* pass of seven steps and the request of the next frame.
C30_Witness ==
    /\ lastCall.op = "connectedCallback"
    /\ \E i \in Instances :
          /\ lastCall.setups = <<i>>
          /\ elems[i].template = TplHooks
          /\ Len(StepsOf(i)) = 15
          /\ StepNames(i)[6] = "code-input_load"

----------------------------------------------------------------------------
(* Properties of the text conversions and of the plugin store *)

\* What escaping does to one character.
EscapedChar(c) == IF c = "&" THEN Amp ELSE IF c = "<" THEN Lt ELSE <<c>>

RECURSIVE Charwise(_)
Charwise(text) ==
    IF text = <<>> THEN <<>> ELSE EscapedChar(Head(text)) \o Charwise(Tail(text))

\* C16: escapeHtml(v) is v with every "&" replaced by "&amp;" and every "<" by "&lt;",
\* every other character (">" too) as it was and nothing escaped twice; a pass over the
\* value "a&b<c" leaves "a&amp;b&lt;c" and the newline in the code node and "a&b<c" in
\* the textarea.
C16_EscapeHtml ==
    /\ lastResult.fn = "escapeHtml" => lastResult.value = Charwise(lastResult.arg)
    /\ \A i \in Instances :
          ( /\ lastCall.op = "animateFrame"
            /\ lastCall.elem = i
            /\ lastCall.updates = 1
            /\ elems[i].textareaValue = SampleText )
          => elems[i].codeInnerHTML =
                <<"a", "&", "a", "m", "p", ";", "b", "&", "l", "t", ";", "c", "\n">>

\* A frame has rendered "a&b<c", and escapeHtml has been called on "<&".
C16_Witness ==
    /\ lastCall.op = "animateFrame"
    /\ lastCall.updates = 1
    /\ elems[lastCall.elem].textareaValue = SampleText
    /\ elems[lastCall.elem].codeInnerHTML # <<>>
    /\ lastResult.fn = "escapeHtml"
    /\ lastResult.arg = <<"<", "&">>

\* C17: unescapeHtml(escapeHtml(v)) = v for every text v of "&", "<" and ">".
C17_RoundTrip ==
    [][( /\ lastResult.fn = "escapeHtml"
         /\ lastResult.arg \in TextsUpTo(MarkupAlphabet, Len(lastResult.arg))
         /\ lastResult'.fn = "unescapeHtml" )
       => /\ lastResult'.arg = escapeHtml(lastResult.arg)
          /\ lastResult'.value = lastResult.arg]_vars

\* unescapeHtml has been given the escaped "&<", which is "&amp;&lt;".
C17_Witness ==
    /\ lastResult.fn = "unescapeHtml"
    /\ lastResult.arg = Amp \o Lt
    /\ lastResult.value = <<"&", "<">>

\* C20: reading codeInput.plugins[name] raises a ReferenceError whose message has the
\* name in it whenever nothing is stored under name, each time; with a plugin stored
\* under name it gives that plugin and raises nothing.
C20_PluginsProxy ==
    [][\A name \in PluginNames :
          ReadPlugin(name)
          => IF name \in DOMAIN plugins
             THEN ~lastResult'.raised /\ lastResult'.value = <<plugins[name]>>
             ELSE lastResult'.raised /\ name \in Range(lastResult'.value)]_vars

----------------------------------------------------------------------------
(* Properties of the event listeners *)

\* The element once code-input_load has been dispatched: as it is when it is built,
\* and with the deferred closures run when it is not.
AfterLoad(e) == IF e.textareaElement # 0 THEN e ELSE runLoadListeners(e, 1)

\* The <<type, listener>> for which an event of the type, on the textarea or on the
\* host, invokes the listener.
Invoked(e) ==
    {<<c.type, c.callback.listener>> : c \in e.textareaListeners \cup e.hostListeners}

\* C11: removeEventListener(type, l) detaches the callback that addEventListener(type,
\* l) attached: after it l is not invoked for events of the type (once the element is
\* loaded), and every other <<type, listener>> that was invoked still is.
C11_RemoveDetaches ==
    [][\A i \in Instances :
          (lastCall'.op = "removeEventListener" /\ lastCall'.elem = i)
          => \A l \in Listeners :
                RemoveListener(i, lastCall'.name, l)
                => /\ <<lastCall'.name, l>> \notin Invoked(AfterLoad(elems'[i]))
                   /\ Invoked(AfterLoad(elems[i])) \ {<<lastCall'.name, l>>}
                         \subseteq Invoked(AfterLoad(elems'[i]))]_vars

\* The callbacks of listener attached in entries for the type.
CallbacksOf(entries, type, listener) ==
    {c \in entries : c.type = type /\ c.callback.listener = listener}

\* C19: addEventListener attaches a listener for change, selectionchange, invalid or
\* input to the textarea and never to the host: at once when the textarea exists, and
\* otherwise once, when code-input_load is dispatched; a listener for another type it
\* attaches to the host at once.  A listener for one of the four types that is added
\* and then removed before the textarea exists is not attached to it after the load.
C19_ForwardedToTextarea ==
    [][\A i \in Instances :
          /\ (lastCall'.op = "addEventListener" /\ lastCall'.elem = i)
             => \A l \in Listeners :
                   AddListener(i, lastCall'.name, l)
                   => LET type == lastCall'.name
                          added(entries) ==
                              Cardinality(CallbacksOf(entries, type, l))
                      IN IF type \notin textareaSyncEvents
                         THEN /\ added(elems'[i].hostListeners)
                                    = added(elems[i].hostListeners) + 1
                              /\ elems'[i].textareaListeners = elems[i].textareaListeners
                              /\ elems'[i].loadListeners = elems[i].loadListeners
                         ELSE /\ elems'[i].hostListeners = elems[i].hostListeners
                              /\ IF elems[i].textareaElement # 0
                                 THEN added(elems'[i].textareaListeners)
                                         = added(elems[i].textareaListeners) + 1
                                 ELSE /\ elems'[i].textareaListeners = {}
                                      /\ added(AfterLoad(elems'[i]).textareaListeners)
                                            = added(AfterLoad(elems[i]).textareaListeners) + 1
          /\ (elems[i].textareaElement = 0 /\ elems'[i].textareaElement # 0)
             => elems'[i].textareaListeners = AfterLoad(elems[i]).textareaListeners
          /\ ( /\ lastCall'.op = "removeEventListener"
               /\ lastCall'.elem = i
               /\ lastCall'.name \in textareaSyncEvents
               /\ elems[i].textareaElement = 0 )
             => \A l \in Listeners :
                   RemoveListener(i, lastCall'.name, l)
                   => CallbacksOf(AfterLoad(elems'[i]).textareaListeners,
                                  lastCall'.name, l) = {}]_vars

----------------------------------------------------------------------------
(* Properties of the mutation observers *)

\* C18: when disconnectedCallback of an element has run, no MutationObserver made for
\* the element is observing, whatever happened to the element before.
C18_ObservationStopped ==
    \A i \in Instances :
        (lastCall.op = "disconnectedCallback" /\ lastCall.elem = i)
        => activeObservers(elems[i]) = 0

----------------------------------------------------------------------------
(* Properties of the attributes *)

\* Element i is attached and built, with its template.
Built(i) ==
    /\ elems[i].isConnected
    /\ elems[i].textareaElement # 0
    /\ elems[i].template # UndefinedTpl

\* This step is a script's change of attribute name of element i.
Changes(i, name) ==
    /\ lastCall'.op = "setAttribute"
    /\ lastCall'.elem = i
    /\ lastCall'.name = name
    /\ elems'[i].attrs # elems[i].attrs

\* C12: a script's change of an attribute that is in textareaSyncAttributes or
\* starts with aria-, on an attached and built element, leaves the textarea with
\* the attribute at its new value, or without it when the attribute was removed.
C12_TextareaSync ==
    [][\A i \in Focus, name \in AttrNames :
          Built(i) /\ IsSynced(name) /\ Changes(i, name)
          => IF hasAttribute(elems'[i], name)
             THEN /\ name \in DOMAIN elems'[i].textareaAttrs
                  /\ elems'[i].textareaAttrs[name] = elems'[i].attrs[name]
             ELSE name \notin DOMAIN elems'[i].textareaAttrs]_vars

\* The parts of element i the built-in handling of an attribute can change.
BuiltinState(e) ==
    [textareaValue |-> e.textareaValue, textareaAttrs |-> e.textareaAttrs,
     codeInnerHTML |-> e.codeInnerHTML, codeClasses |-> e.codeClasses,
     preClasses |-> e.preClasses, classList |-> e.classList,
     template |-> e.template, needsHighlight |-> e.needsHighlight]

\* The template of element i has a plugin that declared name as observed.
Declared(i, name) ==
    \E k \in 1..Len(elems[i].template.plugins.items) :
        name \in elems[i].template.plugins.items[k].observedAttributes

\* C13: a script's change of an attribute that a plugin of the element's template
\* declared, and that is neither built in nor mirrored to the textarea, on an
\* attached and built element: the attributeChanged hook is called with the name,
\* the old and the new value, nothing is raised, and the textarea, the rendering
\* nodes, the template and the flag stay as they were.
C13_PluginAttribute ==
    [][\A i \in Focus, name \in AttrNames \ builtinObservedAttributes :
          Built(i) /\ ~IsSynced(name) /\ Declared(i, name) /\ Changes(i, name)
          => /\ lastCall'.hooks # <<>>
             /\ \A k \in 1..Len(lastCall'.hooks) :
                   /\ lastCall'.hooks[k].name = name
                   /\ lastCall'.hooks[k].oldValue = getAttribute(elems[i], name)
                   /\ lastCall'.hooks[k].newValue = getAttribute(elems'[i], name)
             /\ ~lastCall'.raised
             /\ BuiltinState(elems'[i]) = BuiltinState(elems[i])]_vars

\* This step is a script's change of the lang attribute of the attached and built
\* element i from a to b, which differ when lower-cased, while language-b is not a
\* class of the code node.
LangChanges(i, a, b) ==
    /\ Built(i)
    /\ Changes(i, "lang")
    /\ getAttribute(elems[i], "lang") = Some(a)
    /\ getAttribute(elems'[i], "lang") = Some(b)
    /\ toLowerCase(a) # toLowerCase(b)
    /\ LanguageClass(toLowerCase(b)) \notin elems[i].codeClasses

C15_AlreadyApplied ==
    [][\A i \in Focus, b \in LangTexts :
          /\ Built(i)
          /\ Changes(i, "lang")
          /\ getAttribute(elems'[i], "lang") = Some(b)
          /\ LanguageClass(toLowerCase(b)) \in elems[i].codeClasses
          => /\ elems'[i].codeClasses = elems[i].codeClasses
             /\ elems'[i].preClasses = elems[i].preClasses
             /\ placeholderOf(elems'[i]) = placeholderOf(elems[i])
             /\ elems'[i].needsHighlight = elems[i].needsHighlight]_vars

\* lang has been changed to JS on the built element whose code node has language-js:
\* the class is still the only one and no pass is requested.
C15_Witness ==
    \E i \in Focus :
        /\ Built(i)
        /\ lastCall.op = "setAttribute" /\ lastCall.name = "lang" /\ ~lastCall.raised
        /\ getAttribute(elems[i], "lang") = Some(<<"J", "S">>)
        /\ elems[i].codeClasses = {LanguageClass(<<"j", "s">>)}
        /\ ~elems[i].needsHighlight

----------------------------------------------------------------------------
(* Properties of the default template *)

\* This step is a registerTemplate call that returned.
Registers(name) ==
    /\ lastCall'.op = "registerTemplate"
    /\ ~lastCall'.raised
    /\ lastCall'.name = name
    /\ name \in DOMAIN usedTemplates'

\* C21: defaultTemplate stays undefined until a registerTemplate call returns, that
\* call sets it to the name it registered, no later step changes it, and whenever
\* it is set a template is registered under it.
C21_DefaultTemplate ==
    [][/\ defaultTemplate # Undefined => defaultTemplate' = defaultTemplate
       /\ defaultTemplate = Undefined
            => IF \E name \in Names : Registers(name)
               THEN Registers(defaultTemplate')
               ELSE defaultTemplate' = Undefined
       /\ defaultTemplate' # Undefined => defaultTemplate' \in DOMAIN usedTemplates']_vars

\* The default is "a" and a later call has registered "b".
C21_Witness ==
    /\ defaultTemplate = "a"
    /\ lastCall.op = "registerTemplate" /\ ~lastCall.raised /\ lastCall.name = "b"
    /\ "b" \in DOMAIN usedTemplates

----------------------------------------------------------------------------
(* Properties of the order of the queue *)

\* The elements whose getTemplate calls were queued under key, in the order of the calls.
QueuedInCallOrder(log, key) ==
    LET asked == SelectSeq(log, LAMBDA r : r.name = key)
    IN [k \in 1..Len(asked) |-> asked[k].elem]

\* C22: a bucket holds its elements in the order of the getTemplate calls that queued
\* them, after every step; and a registerTemplate(name, t) that returns has run
\* connectedCallback on the elements of the bucket of name in the order of the bucket,
\* and then, when name became the default, on those of the bucket of the unset name
\* in the order of that bucket.
C22_BucketOrder ==
    [][/\ \A key \in DOMAIN templateNotYetRegisteredQueue' :
             templateNotYetRegisteredQueue'[key] = QueuedInCallOrder(requestLog', key)
       /\ \A name \in Names :
             Registered(name)
             => lastCall'.calls =
                   Bucket(name) \o (IF defaultTemplate = Undefined
                                    /\ Undefined \in DOMAIN templateNotYetRegisteredQueue'
                                    THEN templateNotYetRegisteredQueue'[Undefined]
                                    ELSE <<>>)]_vars

\* A registerTemplate call has run connectedCallback on two different elements of one
\* bucket, in the order in which their getTemplate calls had queued them.
C22_Witness ==
    /\ lastCall.op = "registerTemplate" /\ ~lastCall.raised
    /\ Len(lastCall.calls) = 2
    /\ lastCall.calls[1] # lastCall.calls[2]
    /\ Len(requestLog) = 2
    /\ requestLog[1].name = requestLog[2].name
    /\ lastCall.calls = <<requestLog[1].elem, requestLog[2].elem>>

----------------------------------------------------------------------------
(* Properties of the attribute notifications *)

RECURSIVE Repeat(_, _)
Repeat(seq, n) == IF n = 0 THEN <<>> ELSE seq \o Repeat(seq, n - 1)

\* What one notification does first under a template: the attributeChanged hooks,
\* then the switch.
NotifiedSteps(tpl) == HookSteps(tpl, "attributeChanged") \o <<Step("switch", 0)>>

\* The hook calls of one notification under a template.
NotifiedCalls(tpl, name, oldValue, newValue) ==
    LET called == HookSteps(tpl, "attributeChanged")
    IN [k \in 1..Len(called) |->
           [plugin |-> called[k].arg, name |-> name,
            oldValue |-> oldValue, newValue |-> newValue]]

\* C26: the hooks come first.  A change of an attribute that is handed to
\* attributeChangedCallback -- value, template, lang, an attribute mirrored to the
\* textarea, an attribute a plugin declared -- on an attached and built element
\* calls, for each observer that delivers it, attributeChanged on every plugin of
\* the element's template that has the hook, in order, with the name, the old and
\* the new value, and enters the switch after that; so it does when the switch
\* finds the language class there already.
C26_HooksFirst ==
    [][\A i \in Instances, name \in NotifiedNames :
          (Built(i) /\ Changes(i, name) /\ (name \in observedAttributes \/ IsAria(name)))
          => LET oldValue == getAttribute(elems[i], name)
                 newValue == getAttribute(elems'[i], name)
                 pre == elems[i].template
                 post == elems'[i].template
                 later == IF post = UndefinedTpl THEN 0 ELSE activeObservers(elems[i]) - 1
             IN /\ lastCall'.steps[i] =
                      NotifiedSteps(pre) \o Repeat(NotifiedSteps(post), later)
                /\ lastCall'.hooks =
                      NotifiedCalls(pre, name, oldValue, newValue)
                      \o Repeat(NotifiedCalls(post, name, oldValue, newValue), later)]_vars

\* The lang attribute of an attached and built element under the template with three
\* plugins has changed from "js" to "JS": the code node had the class already, and
\* the two plugins with the hook have been called before the switch.
C26_Witness ==
    /\ lastCall.op = "setAttribute" /\ lastCall.name = "lang" /\ ~lastCall.raised
    /\ \E i \in Instances :
          /\ lastCall.elem = i
          /\ elems[i].template = TplHooks
          /\ elems[i].codeClasses = {LanguageClass(<<"j", "s">>)}
          /\ Len(lastCall.hooks) >= 2
          /\ lastCall.hooks[1] = [plugin |-> 2, name |-> "lang",
                                  oldValue |-> Some(<<"j", "s">>),
                                  newValue |-> Some(<<"J", "S">>)]
          /\ lastCall.hooks[2].plugin = 3
          /\ StepNames(i)[3] = "switch"

----------------------------------------------------------------------------
(* Properties of a change of template and of a second attach *)

\* C27: a change of the template attribute of an attached element that is built, to
\* the name of a registered template or to no attribute when a default template is
\* set, makes that template the element's template, leaves the host with the class
\* code-input_pre-element-styled exactly when its preElementStyled is true, sets
\* needsHighlight and leaves the surfaces and the value as they were.
C27_TemplateChanged ==
    [][\A i \in Instances :
          LET key == IF hasAttribute(elems'[i], "template")
                     THEN elems'[i].attrs["template"] ELSE defaultTemplate
          IN (/\ elems[i].isConnected
              /\ elems[i].textareaElement # 0
              /\ Changes(i, "template")
              /\ key \in DOMAIN usedTemplates)
             => /\ elems'[i].template = usedTemplates[key]
                /\ (StyledClass \in elems'[i].classList)
                      <=> (usedTemplates[key].preElementStyled = "true")
                /\ elems'[i].needsHighlight
                /\ Surfaces(elems'[i]) = Surfaces(elems[i])
                /\ elems'[i].textareaValue = elems[i].textareaValue]_vars

\* C28: a second attach resolves nothing.  A connectedCallback on an element that is
\* built leaves its template, its surfaces, its value and needsHighlight as they
\* were and adds nothing to templateNotYetRegisteredQueue, whatever its template
\* attribute was changed to while it was detached.
C28_ReattachSkips ==
    [][\A i \in Instances :
          (lastCall'.op = "connectedCallback" /\ lastCall'.elem = i
              /\ elems[i].textareaElement # 0)
          => /\ elems'[i].template = elems[i].template
             /\ Surfaces(elems'[i]) = Surfaces(elems[i])
             /\ elems'[i].textareaValue = elems[i].textareaValue
             /\ elems'[i].needsHighlight = elems[i].needsHighlight
             /\ templateNotYetRegisteredQueue' = templateNotYetRegisteredQueue]_vars

----------------------------------------------------------------------------
(* Properties of the initial value *)

\* This step sets element i up.
SetsUp(i) == elems[i].textareaElement = 0 /\ elems'[i].textareaElement # 0

\* The attributes of an element after those of its fallback textarea, if it has one,
\* have been copied under them.
WithFallbackAttributes(e) ==
    IF e.fallback = NoValue THEN e.attrs
    ELSE [n \in DOMAIN e.attrs \cup DOMAIN e.fallback[1].attrs |->
             IF n \in DOMAIN e.attrs THEN e.attrs[n] ELSE e.fallback[1].attrs[n]]

\* The first of the texts that is not empty, and the empty text if none is.
RECURSIVE FirstNonEmpty(_)
FirstNonEmpty(texts) ==
    IF texts = <<>> THEN <<>>
    ELSE IF Head(texts) # <<>> THEN Head(texts)
    ELSE FirstNonEmpty(Tail(texts))

\* What setup finds on the element: the value of the fallback textarea or, without
\* one, the unescaped inner content; and the value attribute, "" when there is none.
FoundText(e) ==
    IF e.fallback # NoValue THEN e.fallback[1].value ELSE unescapeHtml(e.innerHTML)
FoundAttribute(e) ==
    IF "value" \in DOMAIN WithFallbackAttributes(e)
    THEN WithFallbackAttributes(e)["value"] ELSE <<>>

\* The rest of C29, which both readings share: the host has its own attributes and,
\* of the fallback textarea's, those it did not have; the value set is the value
\* captured; the captured value stays, and a form reset sets the value to it.
AttributesAndReset ==
    \A i \in Instances :
        /\ SetsUp(i)
           => /\ elems'[i].attrs = WithFallbackAttributes(elems[i])
              /\ elems'[i].textareaValue = elems'[i].initialValue
        /\ elems[i].textareaElement # 0
           => /\ elems'[i].initialValue = elems[i].initialValue
              /\ (lastCall'.op = "formReset" /\ lastCall'.elem = i)
                 => elems'[i].textareaValue = elems[i].initialValue

\* C29 as stated: setup captures the value of the fallback textarea if the element
\* has one, else its unescaped inner content if that is not empty, else its value
\* attribute if it has one, else the empty text; the attributes of the fallback
\* textarea have been copied to the host, the host's own winning; a form reset
\* restores the captured value.
C29_FallbackIfPresent ==
    [][/\ AttributesAndReset
       /\ \A i \in Instances :
             SetsUp(i)
             => elems'[i].initialValue =
                   (IF elems[i].fallback # NoValue THEN elems[i].fallback[1].value
                    ELSE FirstNonEmpty(<<unescapeHtml(elems[i].innerHTML),
                                         FoundAttribute(elems[i])>>))]_vars

\* C29, amended: setup captures the first text that is not empty of the value of the
\* fallback textarea (the unescaped inner content when the element has no fallback
\* textarea) and the value attribute, and the empty text when both are empty: a
\* fallback textarea with an empty value leaves the value attribute to be used.  The
\* attributes of the fallback textarea have been copied to the host, the host's own
\* winning; a form reset restores the captured value.
C29_InitialValue ==
    [][/\ AttributesAndReset
       /\ \A i \in Instances :
             SetsUp(i)
             => elems'[i].initialValue =
                   FirstNonEmpty(<<FoundText(elems[i]), FoundAttribute(elems[i])>>)]_vars

\* A form reset has restored the value that setup took from the fallback textarea of
\* an element with inner content, whose own placeholder was kept.
C29_Witness ==
    /\ lastCall.op = "formReset"
    /\ \E i \in Instances :
          /\ lastCall.elem = i
          /\ elems[i].initialValue = <<"x">>
          /\ elems[i].textareaValue = <<"x">>
          /\ "code-input-fallback" \in DOMAIN elems[i].attrs
          /\ "placeholder" \in DOMAIN elems[i].attrs
          /\ elems[i].attrs["placeholder"] = <<"q">>
          /\ elems[i].textareaAttrs["placeholder"] = <<"q">>

----------------------------------------------------------------------------
(* Properties: texts that spell an entity *)

MaxPieces == 2          \* pieces a text handed to escapeHtml is put together from

\* The characters that need escaping, a letter, and the spellings of the entities
\* with and without their "&".
EntityPieces == {<<"&">>, <<"<">>, <<">">>, <<"a">>, <<";">>, Tail(Amp), Tail(Lt), Tail(Gt),
                 Amp, Lt, Gt}

RECURSIVE Flatten(_)
Flatten(pieces) == IF pieces = <<>> THEN <<>> ELSE Head(pieces) \o Flatten(Tail(pieces))

\* The texts put together from at most n pieces.
EntityTexts(n) == {Flatten(pieces) : pieces \in UNION {[1..k -> EntityPieces] : k \in 0..n}}

DoEscapeEntityText == \E text \in EntityTexts(MaxPieces) : CallEscapeHtml(text)

\* The conversions on the texts that may spell an entity.
InitEntities == InitOn(Focus, {<<>>})

NextEntities ==
    \/ DoEscapeEntityText
    \/ DoUnescapeHtml

SpecEntities == InitEntities /\ [][NextEntities]_vars

\* C39: unescapeHtml(escapeHtml(v)) = v for every text v, also one that holds the
\* spelling of an entity ("&lt;", "&gt;", "&amp;").
C39_EntityRoundTrip ==
    [][(lastResult.fn = "escapeHtml" /\ lastResult'.fn = "unescapeHtml")
       => lastResult'.value = lastResult.arg]_vars

----------------------------------------------------------------------------
(* Properties: language classes of a template that is not for code *)

DoRegisterNotCode == Register("a", TplPlugin, {NoValue})

\* One element under a template whose isCode is false, and the lang attribute a
\* script changes on it.
InitNotCode == InitOn(Focus, {<<>>})

NextNotCode ==
    \/ DoAttach(Focus, {NoValue})
    \/ DoRegisterNotCode
    \/ DoLangAttribute(Focus)
    \/ DoTick(Focus, {NoValue})

SpecNotCode == InitNotCode /\ [][NextNotCode]_vars

\* C38: the code node of a set-up element whose template has isCode = false carries
\* no language-<x> class, whatever lang attribute it was set up with and whatever
\* changes of lang followed.
C38_NoLanguageClass ==
    \A i \in Focus :
        elems[i].textareaElement # 0 /\ elems[i].template # UndefinedTpl
        /\ ~Truthy(elems[i].template.isCode)
        => LanguageClasses(elems[i].codeClasses) = {}

----------------------------------------------------------------------------
(* Properties: the frame callbacks of an element *)

\* C36: single-flight loop.  An element never has more than one frame callback
\* pending, whatever attaches, detaches, registrations, template changes and frames
\* it has seen, and the only step that adds a pending frame callback to an element
\* that had none is the one that builds its surfaces.
C36_SingleFlight ==
    [][\A i \in Instances :
          /\ elems'[i].pendingFrames <= 1
          /\ elems'[i].pendingFrames > elems[i].pendingFrames => SetsUp(i)
          /\ Cardinality(Positions(i, "requestAnimationFrame")') <= 1]_vars

\* A built element with its frame callback pending has been detached and attached
\* again: its connectedCallback called setup() a second time.
C36_Witness ==
    \E i \in Focus :
        /\ lastCall.op = "connectedCallback"
        /\ lastCall.elem = i
        /\ lastCall.resetups = <<i>>
        /\ elems[i].pendingFrames = 1
        /\ elems[i].loadEvents = 1

----------------------------------------------------------------------------
(* Properties: the template of a built element *)

\* C33: template-defined invariant.  An element that has been set up has a template
\* in every reachable state, after any template changes, detaches, attaches and
\* registrations, and none of its frames ends in an exception.
C33_TemplateDefined ==
    \A i \in Instances :
        elems[i].textareaElement # 0
        => /\ elems[i].template # UndefinedTpl
           /\ (lastCall.op = "animateFrame" /\ lastCall.elem = i) => ~lastCall.raised

----------------------------------------------------------------------------
(* Properties: one notification for one change *)

\* C35: at most one notification per change.  An attached element has at most one
\* observing MutationObserver, whatever attaches, detaches and registerTemplate
\* replays came before; one change of a watched attribute enters the switch of
\* attributeChangedCallback at most once and calls the attributeChanged hook of each
\* plugin at most once.
C35_OneNotification ==
    [][\A i \in Instances :
          /\ elems'[i].isConnected => activeObservers(elems'[i]) <= 1
          /\ \A name \in NotifiedNames :
                Changes(i, name)
                => /\ Cardinality(Positions(i, "switch")') <= 1
                   /\ \A k, l \in DOMAIN lastCall'.hooks :
                         lastCall'.hooks[k].plugin = lastCall'.hooks[l].plugin => k = l]_vars

----------------------------------------------------------------------------
(* Properties: a detached element that waits for its template *)

\* C37: an element is set up only while it is attached.  Through a step that finds
\* an element detached and not built and leaves it detached -- a registerTemplate
\* replay among them -- the element gets no surfaces, dispatches no load event,
\* starts no frame loop and has no MutationObserver started.
C37_SetUpOnlyAttached ==
    [][\A i \in Instances :
          (~elems[i].isConnected /\ ~elems'[i].isConnected /\ elems[i].textareaElement = 0)
          => /\ elems'[i].textareaElement = 0
             /\ elems'[i].loadEvents = elems[i].loadEvents
             /\ elems'[i].pendingFrames = elems[i].pendingFrames
             /\ ~elems'[i].observing
             /\ i \notin Range(lastCall'.setups)]_vars

----------------------------------------------------------------------------
(* Properties: highlight requests under fair frames *)

\* The highlight loop of one element under well-formed templates, with the requests
\* the code run inside a pass makes.  The browser runs a pending frame callback in
\* the end: the frames are weakly fair.
InitFair == InitOn(Focus, {<<>>})

NextFair ==
    \/ DoAttach(Focus, PassRequests)
    \/ DoRegisterWellFormed(PassRequests)
    \/ DoSetValue(Focus)
    \/ DoInput(Focus)
    \/ DoTick(Focus, PassRequests)

SpecFair == InitFair /\ [][NextFair]_vars /\ WF_vars(DoTick(Focus, PassRequests))

\* The code node of built element i holds something else than the rendering of the
\* value the textarea holds: a request has come after the last pass read the value.
Unrendered(i) ==
    /\ elems[i].textareaElement # 0
    /\ elems[i].codeInnerHTML # escapeHtml(elems[i].textareaValue \o Newline)

\* C31: no highlight request is lost.  Whenever a value has been given to a built
\* element that its code node does not show -- by a script, by the user, or by a hook
\* or the highlight function during a pass -- a later pass renders the value the
\* element then has, under fair frames.
C31_NoRequestLost ==
    \A i \in Focus : Unrendered(i) ~> ~Unrendered(i)

----------------------------------------------------------------------------
(* Properties: attribute changes of an element that waits for its template *)

\* Element i is attached and waits in the queue: it has no template and no surfaces.
Queued(i) ==
    /\ elems[i].isConnected
    /\ elems[i].template = UndefinedTpl
    /\ elems[i].textareaElement = 0

\* C34: a change of a watched attribute (value, template, lang, an aria- attribute)
\* of an element that is attached and waits for its template raises nothing and
\* leaves the element, but for the attribute itself, and the registry as they were.
C34_QueuedChangeIsQuiet ==
    [][\A i \in Instances, name \in NotifiedNames :
          (Queued(i) /\ Changes(i, name) /\ (name \in observedAttributes \/ IsAria(name)))
          => /\ ~lastCall'.raised
             /\ BuiltinState(elems'[i]) = BuiltinState(elems[i])
             /\ Surfaces(elems'[i]) = Surfaces(elems[i])
             /\ usedTemplates' = usedTemplates
             /\ defaultTemplate' = defaultTemplate
             /\ templateNotYetRegisteredQueue' = templateNotYetRegisteredQueue]_vars

----------------------------------------------------------------------------
(* Properties: a batch of attribute mutations *)

\* The attributes a script changes together, and the texts it gives them;
\* data-limit is declared by no plugin here and is not watched.
BatchNames == {"lang", "value", "data-limit"}
BatchTexts(name) ==
    CASE name = "lang" -> {<<"j", "s">>}
      [] name = "value" -> {<<"&">>}
      [] name = "data-limit" -> {<<"5">>}
BatchChanges ==
    {[name |-> name, attr |-> a] :
        name \in BatchNames, a \in {NoValue} \cup {Some(<<"j", "s">>), Some(<<"&">>), Some(<<"5">>)}}

DoChangeAttributes(I) ==
    \E i \in I, first \in BatchChanges, second \in BatchChanges :
        /\ first.name # second.name
        /\ first.attr # NoValue => first.attr[1] \in BatchTexts(first.name)
        /\ second.attr # NoValue => second.attr[1] \in BatchTexts(second.name)
        /\ ChangeAttributes(i, first, second)

\* One element whose attributes a script changes two at a time.
InitBatch == InitOn(Focus, {<<>>})

NextBatch ==
    \/ DoAttach(Focus, {NoValue})
    \/ DoRegisterPlain
    \/ DoChangeAttributes(Focus)
    \/ DoTick(Focus, {NoValue})

SpecBatch == InitBatch /\ [][NextBatch]_vars

\* The watched attributes of element i whose value this step changes.
WatchedChanged(i) ==
    {name \in BatchNames :
        /\ name \in observedAttributes \/ IsAria(name)
        /\ getAttribute(elems'[i], name) # getAttribute(elems[i], name)}

\* C32: every watched mutation of a batch is dispatched.  When one batch of
\* mutations of an attached and built element is delivered, attributeChangedCallback
\* enters its switch once at least for each watched attribute of the batch: a
\* changed value attribute is the element's value afterwards, and the code node
\* carries the class of a changed lang attribute.
C32_BatchDispatched ==
    [][\A i \in Focus :
          (Built(i) /\ lastCall'.op = "setAttributes" /\ lastCall'.elem = i)
          => /\ Cardinality(Positions(i, "switch")') >= Cardinality(WatchedChanged(i))
             /\ "value" \in WatchedChanged(i)
                => elems'[i].textareaValue =
                      (IF hasAttribute(elems'[i], "value") THEN elems'[i].attrs["value"] ELSE <<>>)
             /\ ("lang" \in WatchedChanged(i) /\ hasAttribute(elems'[i], "lang"))
                => LanguageClass(toLowerCase(elems'[i].attrs["lang"])) \in elems'[i].codeClasses]_vars

====
